---- MODULE Spec2Model ----
(***************************************************************************)
(* Mental-Models constellation: the 3D scene engine and the markdown        *)
(* parser of src/src/js/constellation.js (ConstellationVisualization,      *)
(* MentalModelsParser), the search and filter manager of                   *)
(* src/src/js/search.js (SearchManager) and the start-up of the app in     *)
(* src/unnamed/part_000 (initApp, addGlobalEventListeners).                *)
(*                                                                         *)
(* Numbers are kept as integers:                                           *)
(*   scale            in tenths          (1.5 is 15)                       *)
(*   emissiveIntensity in tenths         (0.3 is 3)                        *)
(*   camera.position.z in units of 0.05  (50 is 1000), the wheel factor    *)
(*   scene.rotation   in units of 0.005 rad, the drag factor               *)
(*   constellation.rotation.y in units of rotationSpeed (0.001 rad)        *)
(***************************************************************************)
EXTENDS Integers, Sequences, FiniteSets, TLC

\* ------------------------------------------------------------------ bounds

\* Most models in one input mapping of SpecBuild, over all its categories.
MaxModels == 3

\* Most categories in one input mapping of SpecBuild.
MaxEntries == 2

\* Longest list of ray intersections a click is given.
MaxHits == 2

\* Most animation frames that advance the constellations' rotation.
MaxTicks == 2

\* Largest |scene.rotation| component, in units of 0.005 rad.
MaxRotation == 10

\* Most resize events of one run of SpecResize.
MaxResizes == 3

\* Most input events of one burst of SpecInput.
MaxInputs == 3

\* Most lines of one markdown text of SpecHeaders.
MaxHeaderLines == 3

\* Most lines of one markdown text of SpecParse.
MaxLines == 4

\* ------------------------------------------------------- program constants

BaseScale == 10
SelectedScale == 15
HighlightScale == 13
BaseEmissive == 3
HighlightEmissive == 8

\* 1 / 0.05: camera.position.z is kept in units of 0.05.
WheelUnitsPerZ == 20
MinCameraZ == 20
MaxCameraZ == 100
DefaultCameraZ == 50

\* The delay of the app's resize timer, in ms.
DebounceMs == 250

\* The delay of the search input's timer, in ms.
SearchDebounceMs == 300

\* SearchManager: this.maxHistory.
maxHistory == 10

\* ------------------------------------------------------------ static tables

\* this.categoryConfigs: the own keys of the object literal.
categoryConfigs ==
    [c \in {"Economics and Strategy", "Human Nature and Judgment",
            "Numeracy and Interpretation", "Thinking", "Systems",
            "Biological World", "Physical World", "Military and War",
            "Political Failure", "Rule of Law"} |->
        CASE c = "Economics and Strategy"      -> [color |-> 16739125, position |-> <<0, 30, 0>>]
          [] c = "Human Nature and Judgment"   -> [color |-> 10181046, position |-> <<-35, 0, 15>>]
          [] c = "Numeracy and Interpretation" -> [color |-> 15105570, position |-> <<35, 0, 15>>]
          [] c = "Thinking"                    -> [color |-> 3447003,  position |-> <<0, -30, 15>>]
          [] c = "Systems"                     -> [color |-> 3066993,  position |-> <<-40, 15, -15>>]
          [] c = "Biological World"            -> [color |-> 1752220,  position |-> <<40, 15, -15>>]
          [] c = "Physical World"              -> [color |-> 15158332, position |-> <<0, 35, -20>>]
          [] c = "Military and War"            -> [color |-> 16711680, position |-> <<-30, -20, -15>>]
          [] c = "Political Failure"           -> [color |-> 15965202, position |-> <<30, -20, -15>>]
          [] c = "Rule of Law"                 -> [color |-> 15844367, position |-> <<0, 0, -30>>]]

\* categoryConfigs is a plain object: a lookup of one of these keys finds the
\* property inherited from Object.prototype, a truthy value that has neither
\* .color nor .position.
ObjectPrototypeKeys ==
    {"constructor", "toString", "valueOf", "hasOwnProperty", "isPrototypeOf",
     "propertyIsEnumerable", "toLocaleString", "__defineGetter__",
     "__defineSetter__", "__lookupGetter__", "__lookupSetter__", "__proto__"}

\* Truthiness of this.categoryConfigs[category].
HasConfig(category) ==
    category \in DOMAIN categoryConfigs \/ category \in ObjectPrototypeKeys

\* config.position is an object: false for an inherited property, whose
\* config.position is undefined, so that reading config.position.x throws.
ConfigHasPosition(category) == category \in DOMAIN categoryConfigs

\* ------------------------------------------------------------------ inputs

\* MentalModelsParser.generateId on the names of the pool: lowercased,
\* characters outside [a-z0-9\s] removed, whitespace runs to a hyphen.
generateId ==
    [n \in {"Trust", "Trust!", "Inversion"} |->
        CASE n = "Trust"     -> "trust"
          [] n = "Trust!"    -> "trust"
          [] n = "Inversion" -> "inversion"]

ModelNames == DOMAIN generateId

\* The record parseTableRow returns for a row of category `category`.
Model(name, category) ==
    [name |-> name, description |-> "about " \o name,
     id |-> generateId[name], category |-> category]

\* An entry of Object.entries(this.data): a category key and its models.
Entry(category, names) ==
    [category |-> category,
     models |-> [i \in 1..Len(names) |-> Model(names[i], category)]]

\* Category keys of the inputs: two of the table, one outside it, and one
\* that Object.prototype defines.
CategoryKeys == {"Thinking", "Systems", "Astrology", "constructor"}

SeqsUpTo(S, n) == UNION {[1..k -> S] : k \in 0..n}

RECURSIVE Distinct(_)
Distinct(s) ==
    \/ Len(s) <= 1
    \/ /\ \A i \in 2..Len(s) : s[i] # s[1]
       /\ Distinct(Tail(s))

\* The ways of cutting the sequence s into n consecutive parts.
RECURSIVE Splits(_, _)
Splits(s, n) ==
    IF n = 0 THEN (IF s = <<>> THEN {<<>>} ELSE {})
    ELSE UNION { { <<SubSeq(s, 1, k)>> \o r :
                      r \in Splits(SubSeq(s, k + 1, Len(s)), n - 1) } :
                 k \in 0..Len(s) }

\* The key orders of the input mappings of at most MaxEntries categories.
InputKeys == {ks \in SeqsUpTo(CategoryKeys, MaxEntries) : Distinct(ks)}

\* The input mappings with the keys `keys`, in that order, that share out the
\* models named `names` among them.
InputsOf(keys, names) ==
    { [i \in 1..Len(keys) |-> Entry(keys[i], lists[i])] :
          lists \in Splits(names, Len(keys)) }

\* The inputs of the scene specifications.
SceneInputs ==
    { <<>>,
      <<Entry("Thinking", <<>>)>>,
      <<Entry("Thinking", <<"Trust">>)>>,
      <<Entry("Thinking", <<"Trust", "Inversion">>)>>,
      <<Entry("Thinking", <<"Trust">>), Entry("Systems", <<"Inversion">>)>>,
      <<Entry("Thinking", <<"Trust">>), Entry("Systems", <<"Trust!">>)>>,
      <<Entry("Thinking", <<"Trust">>), Entry("Astrology", <<"Inversion">>)>>,
      <<Entry("constructor", <<>>)>> }

\* --------------------------------------------------------------- scene graph

\* Object3D nodes. A star is named by its category and its index in the
\* category's list; its glow is its only child.
Scene == [kind |-> "scene", cat |-> "", idx |-> 0]
NoObject == [kind |-> "null", cat |-> "", idx |-> 0]
StarField == [kind |-> "points", cat |-> "", idx |-> 0]
Group(c) == [kind |-> "group", cat |-> c, idx |-> 0]
Star(c, i) == [kind |-> "star", cat |-> c, idx |-> i]
Glow(c, i) == [kind |-> "glow", cat |-> c, idx |-> i]
NoStar == NoObject

\* What a starSelected event carries when none is dispatched.
NoModel == [name |-> "", description |-> "", id |-> "", category |-> ""]

EmptyMap == [x \in {} |-> x]

MapSet(m, k, v) == [x \in DOMAIN m \cup {k} |-> IF x = k THEN v ELSE m[x]]

\* ------------------------------------------------------------------- state

VARIABLES
    data,               \* this.data: the entries of the input mapping, in key order
    phase,              \* "fetched" (the markdown text is loaded), "loading"
                        \* (parsed), "running" (constructed) or "failed" (init
                        \* threw)
    stars,              \* this.stars: Map model id -> star
    constellations,     \* this.constellations: Map category -> group
    sceneChildren,      \* the groups among this.scene.children
    visible,            \* group.visible, by category
    rotationY,          \* group.rotation.y, by category
    scale,              \* star.scale (x = y = z), by star
    emissiveIntensity,  \* star.material.emissiveIntensity, by star
    userData,           \* star.userData: the model the star carries, by star
    selectedStar,       \* this.selectedStar
    isRotating,         \* this.isRotating
    cameraZ,            \* this.camera.position.z
    sceneRotation,      \* this.scene.rotation (x, y)
    controls,           \* this.controls
    mouse,              \* this.mouse, times the canvas size
    rafPending,         \* requestAnimationFrame callbacks not yet run
    rendererDisposed,   \* this.renderer.dispose() was called
    emitted,            \* detail of the starSelected event the last step dispatched
    button,             \* the host's pointer button: "up", "down", "released"
    gesture,            \* the pointer and its last press: where the pointer is,
                        \* where the button went down, whether the pointer has
                        \* since been 5px or more away, the rotation at the press
    lastFilter,         \* the argument of the last filterByCategory call, if any
    lastOp,             \* the last handler or command, with its arguments, and
                        \* what it found: the star selected before a click or
                        \* a focus (previous), the camera z before a wheel (x)
    searchInput,        \* SearchManager: this.searchInput.value
    currentSearchResults, \* SearchManager: this.currentSearchResults, as a set
    resizeTimeout,      \* the app's resizeTimeout: ms until the pending timer
                        \* fires, or NoTimer
    clock,              \* ms since the page loaded
    resizes,            \* resize events so far
    projections,        \* onWindowResize() calls since the current burst began
    appPc,              \* the app's start-up: "initApp" until initApp() has
                        \* settled, "then" until its .then callback ran, "done"
    searchManager,      \* the app's searchManager was created
    errorShown,         \* showError appended the error message to the page
    globalListeners,    \* addGlobalEventListeners() ran
    markdown,           \* the lines of the markdown text initApp fetched
    managerClass,       \* which declaration of class SearchManager is in
                        \* use: 1 (search.js 6-407) or 2 (search.js 422-776)
    checked,            \* SearchManager: checkbox.checked, by category
    activeFilters,      \* SearchManager: this.activeFilters
    viewHistory,        \* SearchManager: this.viewHistory
    hidden,             \* document.hidden
    userPaused,         \* the last Space key press turned the rotation off
    searchTimers,       \* the search timers pending, each by the ms it has left
    searchTimeout,      \* SearchManager: this.searchTimeout, by the ms left
    sinceInput,         \* ms since the last input event of the search input
    searchRuns,         \* searches the timers ran since the burst began
    burst               \* input events of the burst so far

searchVars == <<searchInput, currentSearchResults>>
resizeVars == <<resizeTimeout, clock, resizes, projections>>
startVars == <<appPc, searchManager, errorShown, globalListeners, markdown,
               managerClass>>
filterVars == <<checked, activeFilters>>
pageVars == <<hidden, userPaused>>

uiVars == <<startVars, filterVars, viewHistory, pageVars>>
debounceVars == <<searchTimers, searchTimeout, sinceInput, searchRuns, burst>>
appVars == <<searchVars, resizeVars, uiVars, debounceVars>>

sceneVars == <<stars, constellations, sceneChildren, visible, scale,
               emissiveIntensity, userData, selectedStar, rendererDisposed>>
loopVars == <<rotationY, isRotating, rafPending>>
inputVars == <<cameraZ, sceneRotation, controls, mouse, button, gesture>>
vars == <<data, phase, sceneVars, loopVars, inputVars, emitted, lastFilter,
          lastOp, appVars>>

\* No setTimeout is pending.
NoTimer == -1

\* The canvas rectangle getBoundingClientRect() returns.
Canvas == [left |-> 0, top |-> 0, width |-> 40, height |-> 40]

Op(name) ==
    [op |-> name, id |-> "", ids |-> {}, cats |-> {}, hits |-> <<>>,
     previous |-> NoStar, x |-> 0, y |-> 0]

\* The pointer rests on the canvas at PointerStart before its first move.
PointerStart == <<23, 23>>

NoGesture ==
    [x |-> PointerStart[1], y |-> PointerStart[2], downX |-> 0, downY |-> 0,
     moved |-> FALSE, rotX |-> 0, rotY |-> 0]

\* ------------------------------------------------------------ scene building

\* The registration loop keeping the first star of an id instead of the last.
RECURSIVE createStarsKeepFirst(_, _, _, _)
createStarsKeepFirst(reg, category, models, i) ==
    IF i > Len(models) THEN reg
    ELSE createStarsKeepFirst(
             IF models[i].id \in DOMAIN reg THEN reg
             ELSE MapSet(reg, models[i].id, Star(category, i)),
             category, models, i + 1)

\* models.forEach(...): this.stars.set(model.id, star) for each model in order.
RECURSIVE createStars(_, _, _, _)
createStars(reg, category, models, i) ==
    IF i > Len(models) THEN reg
    ELSE createStars(MapSet(reg, models[i].id, Star(category, i)),
                     category, models, i + 1)

\* createCategoryConstellation on the build so far. The stars are registered
\* before config.position is read; when that read throws, the group is
\* neither added to the scene nor registered.
createCategoryConstellation(b, category, models) ==
    LET reg == createStars(b.stars, category, models, 1) IN
    IF ~ConfigHasPosition(category)
    THEN [b EXCEPT !.stars = reg, !.threw = TRUE]
    ELSE [stars |-> reg,
          constellations |-> MapSet(b.constellations, category, Group(category)),
          sceneChildren |-> b.sceneChildren \cup {Group(category)},
          created |-> [s \in DOMAIN b.created \cup
                                {Star(category, i) : i \in 1..Len(models)} |->
                           IF s \in DOMAIN b.created THEN b.created[s]
                           ELSE models[s.idx]],
          threw |-> FALSE]

\* createConstellations: the loop over Object.entries(this.data).
RECURSIVE createConstellations(_, _, _)
createConstellations(b, entries, k) ==
    IF b.threw \/ k > Len(entries) THEN b
    ELSE createConstellations(
             IF HasConfig(entries[k].category)
             THEN createCategoryConstellation(b, entries[k].category,
                                              entries[k].models)
             ELSE b,
             entries, k + 1)

EmptyBuild ==
    [stars |-> EmptyMap, constellations |-> EmptyMap, sceneChildren |-> {},
     created |-> EmptyMap, threw |-> FALSE]

Build(entries) == createConstellations(EmptyBuild, entries, 1)

\* ------------------------------------------------------------------- start

\* The state before the engine is constructed, but for the input.
InitState ==
    /\ stars = EmptyMap
    /\ constellations = EmptyMap
    /\ sceneChildren = {}
    /\ visible = EmptyMap
    /\ rotationY = EmptyMap
    /\ scale = EmptyMap
    /\ emissiveIntensity = EmptyMap
    /\ userData = EmptyMap
    /\ selectedStar = NoStar
    /\ isRotating = TRUE
    /\ cameraZ = 0
    /\ sceneRotation = [x |-> 0, y |-> 0]
    /\ controls = [mouseX |-> 0, mouseY |-> 0, targetRotationX |-> 0,
                   targetRotationY |-> 0, isMouseDown |-> FALSE]
    /\ mouse = [x |-> 0, y |-> 0]
    /\ rafPending = 0
    /\ rendererDisposed = FALSE
    /\ emitted = NoModel
    /\ button = "up"
    /\ gesture = NoGesture
    /\ lastFilter = [called |-> FALSE, cats |-> {}]
    /\ lastOp = Op("none")
    /\ searchInput = ""
    /\ currentSearchResults = {}
    /\ resizeTimeout = NoTimer
    /\ clock = 0
    /\ resizes = 0
    /\ projections = 0
    /\ appPc = "initApp"
    /\ searchManager = FALSE
    /\ errorShown = FALSE
    /\ globalListeners = FALSE
    /\ checked = EmptyMap
    /\ activeFilters = {}
    /\ viewHistory = <<>>
    /\ hidden = FALSE
    /\ userPaused = FALSE
    /\ searchTimers = {}
    /\ searchTimeout = NoTimer
    /\ sinceInput = 0
    /\ searchRuns = 0
    /\ burst = 0

\* The declaration of SearchManager the app is written for: the second,
\* which has the details panel and the history the app's listeners call.
AppManagerClass == 2

\* The parsed data is one of `inputs`.
InitWith(inputs) ==
    /\ data \in inputs
    /\ phase = "loading"
    /\ markdown = <<>>
    /\ managerClass = AppManagerClass
    /\ InitState

Init == InitWith(SceneInputs)

\* The first animate() call of init(): it requests the next frame and, as
\* isRotating starts true, already advances every constellation once.
FirstFrameRotation(groups) == [c \in groups |-> 1]

\* new ConstellationVisualization(containerId, data): init().
Construct ==
    /\ phase = "loading"
    /\ LET b == Build(data) IN
       IF b.threw
       THEN /\ phase' = "failed"
            /\ UNCHANGED <<sceneVars, loopVars, cameraZ>>
       ELSE /\ phase' = "running"
            /\ stars' = b.stars
            /\ constellations' = b.constellations
            /\ sceneChildren' = b.sceneChildren
            /\ visible' = [c \in DOMAIN b.constellations |-> TRUE]
            /\ scale' = [s \in DOMAIN b.created |-> BaseScale]
            /\ emissiveIntensity' = [s \in DOMAIN b.created |-> BaseEmissive]
            /\ userData' = b.created
            /\ rotationY' = FirstFrameRotation(DOMAIN b.constellations)
            /\ rafPending' = 1
            /\ cameraZ' = DefaultCameraZ * WheelUnitsPerZ
            /\ UNCHANGED <<selectedStar, rendererDisposed, isRotating>>
    /\ emitted' = NoModel
    /\ lastOp' = Op("construct")
    /\ UNCHANGED <<data, sceneRotation, controls, mouse, button, gesture,
                   lastFilter>>
    /\ UNCHANGED appVars

\* ------------------------------------------------- selection and highlight

Range(f) == {f[k] : k \in DOMAIN f}

\* selectStar dispatching a detail that lacks the category.
selectStarDetailNoCategory(ud, star) == [ud[star] EXCEPT !.category = ""]

\* selectStar, the detail of the starSelected event: star.userData.
selectStarDetail(ud, star) == ud[star]

\* selectStar deselecting the previous star after it enlarged the new one.
selectStarScaleDeselectsLast(sc, previous, star) ==
    LET selected == [sc EXCEPT ![star] = SelectedScale]
    IN IF previous # NoStar
       THEN [selected EXCEPT ![previous] = BaseScale]
       ELSE selected

\* selectStar without its deselection of the previous star.
selectStarScaleKeepsPrevious(sc, previous, star) ==
    [sc EXCEPT ![star] = SelectedScale]

\* selectStar, on star.scale: the previous star back to 1, the new one to 1.5.
selectStarScale(sc, previous, star) ==
    LET deselected == IF previous # NoStar
                      THEN [sc EXCEPT ![previous] = BaseScale]
                      ELSE sc
    IN [deselected EXCEPT ![star] = SelectedScale]

\* highlightSearchResults, on star.scale: this.stars.forEach over the registry.
highlightScale(sc, reg, modelIds) ==
    [s \in DOMAIN sc |->
        IF \E id \in DOMAIN reg : reg[id] = s
        THEN LET id == CHOOSE id \in DOMAIN reg : reg[id] = s
             IN IF id \in modelIds THEN HighlightScale ELSE BaseScale
        ELSE sc[s]]

\* highlightSearchResults, on star.material.emissiveIntensity.
highlightEmissive(em, reg, modelIds) ==
    [s \in DOMAIN em |->
        IF \E id \in DOMAIN reg : reg[id] = s
        THEN LET id == CHOOSE id \in DOMAIN reg : reg[id] = s
             IN IF id \in modelIds THEN HighlightEmissive ELSE BaseEmissive
        ELSE em[s]]

\* resetHighlights, on star.scale.
resetScale(sc, reg) ==
    [s \in DOMAIN sc |-> IF s \in Range(reg) THEN BaseScale ELSE sc[s]]

\* resetHighlights, on star.material.emissiveIntensity.
resetEmissive(em, reg) ==
    [s \in DOMAIN em |-> IF s \in Range(reg) THEN BaseEmissive ELSE em[s]]

\* filterByCategory showing the listed groups and leaving the others as
\* they are.
filterVisibleOnlyShows(vis, reg, visibleCategories) ==
    [c \in DOMAIN vis |->
        IF c \in DOMAIN reg /\ c \in visibleCategories THEN TRUE ELSE vis[c]]

\* filterByCategory, on group.visible: this.constellations.forEach.
filterVisible(vis, reg, visibleCategories) ==
    [c \in DOMAIN vis |->
        IF c \in DOMAIN reg THEN c \in visibleCategories ELSE vis[c]]

\* ------------------------------------------------------------------ picking

\* object.parent
parent(o) ==
    CASE o.kind = "glow"   -> Star(o.cat, o.idx)
      [] o.kind = "star"   -> Group(o.cat)
      [] o.kind = "group"  -> Scene
      [] o.kind = "points" -> Scene
      [] OTHER             -> NoObject

\* Truthiness of object.userData.name: only a star carries a model.
hasName(o) == o.kind = "star" /\ userData[o].name # ""

\* onMouseClick without the walk up the ancestors of the hit object.
findStarNoWalk(o) == o

\* The while loop of onMouseClick: up from the hit object to the first
\* ancestor with a model name, or to the scene.
RECURSIVE findStar(_)
findStar(o) ==
    IF parent(o) # NoObject /\ ~hasName(o) THEN findStar(parent(o)) ELSE o

\* The condition of onMouseClick without its test of the group's visibility.
clickSelectsInvisible(star) ==
    /\ hasName(star)
    /\ parent(star) # NoObject

\* The condition under which onMouseClick selects the star it found.
clickSelects(star) ==
    /\ hasName(star)
    /\ parent(star) # NoObject
    /\ visible[parent(star).cat]

\* The star onMouseClick selects for the intersections `intersects`, nearest
\* first, or NoStar: only intersects[0] is looked at.
clickedStar(intersects) ==
    IF Len(intersects) > 0 /\ clickSelects(findStar(intersects[1]))
    THEN findStar(intersects[1])
    ELSE NoStar

\* What raycaster.intersectObjects(scene.children, true) can return: the
\* meshes and points of the scene graph, visible or not (the ray caster
\* tests layers, not .visible), in any order of distance.
Hittable ==
    {StarField} \cup DOMAIN scale \cup {Glow(s.cat, s.idx) : s \in DOMAIN scale}

HitLists == {h \in SeqsUpTo(Hittable, MaxHits) : Distinct(h)}

\* ------------------------------------------------------------------ inputs

\* Pointer positions on the canvas, in client pixels.
PointerPositions == {<<20, 20>>, <<23, 23>>, <<30, 20>>}

WheelDeltas == {-2400, -800, 800, 2400}

KeyCodes == {"Space", "KeyR", "KeyS"}

\* Arguments of highlightSearchResults and focusOnModel.
IdUniverse == Range(generateId) \cup {"unknown"}

\* Arguments of filterByCategory.
FilterUniverse == {"Thinking", "Systems", "Astrology"}

Abs(n) == IF n < 0 THEN -n ELSE n

Clamp(lo, hi, n) == IF n < lo THEN lo ELSE IF n > hi THEN hi ELSE n

\* The wheel handler without Math.min(100, ...).
wheelZNoUpperBound(z, deltaY) ==
    IF z + deltaY < MinCameraZ * WheelUnitsPerZ
    THEN MinCameraZ * WheelUnitsPerZ
    ELSE z + deltaY

\* Math.max(20, Math.min(100, z + delta)), delta = deltaY * 0.05.
wheelZ(z, deltaY) ==
    Clamp(MinCameraZ * WheelUnitsPerZ, MaxCameraZ * WheelUnitsPerZ, z + deltaY)

\* this.mouse for a pointer at client (x, y): ((x - left) / width) * 2 - 1 and
\* -((y - top) / height) * 2 + 1, times width and height.
mouseNDC(x, y) ==
    [x |-> 2 * (x - Canvas.left) - Canvas.width,
     y |-> Canvas.height - 2 * (y - Canvas.top)]

\* ----------------------------------------------------------------- handlers

Running == phase = "running"

\* onMouseMove(event) for a pointer moved to p.
OnMouseMove(p) ==
    /\ Running /\ button # "released"
    /\ LET dx == p[1] - controls.mouseX
           dy == p[2] - controls.mouseY
           rot == IF controls.isMouseDown
                  THEN [x |-> sceneRotation.x + dy, y |-> sceneRotation.y + dx]
                  ELSE sceneRotation
       IN /\ Abs(rot.x) <= MaxRotation /\ Abs(rot.y) <= MaxRotation
          /\ sceneRotation' = rot
    /\ mouse' = mouseNDC(p[1], p[2])
    /\ controls' = [controls EXCEPT !.mouseX = p[1], !.mouseY = p[2]]
    /\ gesture' = IF button = "down"
                  THEN [gesture EXCEPT !.x = p[1], !.y = p[2],
                            !.moved = @ \/ Abs(p[1] - gesture.downX) >= 5
                                        \/ Abs(p[2] - gesture.downY) >= 5]
                  ELSE [gesture EXCEPT !.x = p[1], !.y = p[2]]
    /\ emitted' = NoModel
    /\ lastOp' = [Op("mousemove") EXCEPT !.x = p[1], !.y = p[2]]
    /\ UNCHANGED <<lastFilter, data, phase, sceneVars, loopVars, cameraZ,
                   button>>
    /\ UNCHANGED appVars

\* onMouseDown(event): the button goes down where the pointer is.
OnMouseDown ==
    /\ Running /\ button = "up"
    /\ controls' = [controls EXCEPT !.isMouseDown = TRUE]
    /\ button' = "down"
    /\ gesture' = [gesture EXCEPT !.downX = gesture.x, !.downY = gesture.y,
                       !.moved = FALSE,
                       !.rotX = sceneRotation.x, !.rotY = sceneRotation.y]
    /\ emitted' = NoModel
    /\ lastOp' = Op("mousedown")
    /\ UNCHANGED <<lastFilter, data, phase, sceneVars, loopVars, cameraZ,
                   sceneRotation, mouse>>
    /\ UNCHANGED appVars

\* onMouseUp(event): the host dispatches click right after it, the press and
\* the release being both on the canvas.
OnMouseUp ==
    /\ Running /\ button = "down"
    /\ controls' = [controls EXCEPT !.isMouseDown = FALSE]
    /\ button' = "released"
    /\ emitted' = NoModel
    /\ lastOp' = Op("mouseup")
    /\ UNCHANGED <<lastFilter, data, phase, sceneVars, loopVars, cameraZ,
                   sceneRotation, mouse, gesture>>
    /\ UNCHANGED appVars

\* The button is released with the pointer outside the canvas: mouseup is
\* listened for on the canvas only, so no handler runs, and no click follows
\* on the canvas.
OnMouseUpOutside ==
    /\ Running /\ button = "down"
    /\ button' = "up"
    /\ emitted' = NoModel
    /\ lastOp' = Op("mouseupOutside")
    /\ UNCHANGED <<lastFilter, data, phase, sceneVars, loopVars, cameraZ,
                   sceneRotation, controls, mouse, gesture, appVars>>

\* Changes of the distance between two touch points, in pixels.
PinchDeltas == {-40, 40}

\* A touchmove of two touch points on the canvas whose distance changed by
\* delta: addEventListeners registers no touch listener, so no handler runs.
OnPinch(delta) ==
    /\ Running /\ button = "up"
    /\ emitted' = NoModel
    /\ lastOp' = [Op("pinch") EXCEPT !.x = cameraZ, !.y = delta]
    /\ UNCHANGED <<lastFilter, data, phase, sceneVars, loopVars, inputVars,
                   appVars>>

\* this.viewHistory.findIndex((item) => item.id === model.id) > -1
inHistory(history, model) ==
    \E i \in DOMAIN history : history[i].id = model.id

\* addToHistory without the limit of maxHistory entries.
addToHistoryNoLimit(history, model) ==
    IF inHistory(history, model) THEN history ELSE <<model>> \o history

\* SearchManager.addToHistory(model), on this.viewHistory: a model whose id
\* is there already changes nothing; a new one is put first, and the last
\* entry is dropped when there are more than maxHistory.
addToHistory(history, model) ==
    IF inHistory(history, model) THEN history
    ELSE IF Len(history) + 1 > maxHistory
    THEN SubSeq(<<model>> \o history, 1, Len(history))
    ELSE <<model>> \o history

\* The starSelected listener of the search manager, once there is one, on
\* this.viewHistory: showModelDetails(e.detail) adds the model dispatched.
\* `manager` is 0 while there is no search manager and then the number of
\* its class; showModelDetails of the first class keeps no history.
starSelectedHistory(history, manager, detail) ==
    IF manager = 2 /\ detail # NoModel THEN addToHistory(history, detail)
    ELSE history

\* The search manager there is: 0 for none, or its class.
manager == IF searchManager THEN managerClass ELSE 0

\* onMouseClick(event), the ray from this.mouse intersecting `intersects`.
\* selectStar dispatches starSelected, whose listeners run within the click.
OnMouseClick(intersects) ==
    /\ Running /\ button = "released"
    /\ LET star == clickedStar(intersects) IN
       IF star # NoStar
       THEN /\ scale' = selectStarScale(scale, selectedStar, star)
            /\ selectedStar' = star
            /\ emitted' = selectStarDetail(userData, star)
       ELSE /\ UNCHANGED <<scale, selectedStar>>
            /\ emitted' = NoModel
    /\ viewHistory' = starSelectedHistory(viewHistory, manager, emitted')
    /\ button' = "up"
    /\ lastOp' = [Op("click") EXCEPT !.hits = intersects,
                                    !.previous = selectedStar,
                                    !.x = mouse.x, !.y = mouse.y]
    /\ UNCHANGED <<lastFilter, data, phase, stars, constellations,
                   sceneChildren, visible, emissiveIntensity, userData,
                   rendererDisposed, loopVars, cameraZ, sceneRotation, controls,
                   mouse, gesture>>
    /\ UNCHANGED <<searchVars, resizeVars, startVars, filterVars, pageVars,
                   debounceVars>>

\* onMouseWheel(event)
OnMouseWheel(deltaY) ==
    /\ Running /\ button # "released"
    /\ cameraZ' = wheelZ(cameraZ, deltaY)
    /\ emitted' = NoModel
    /\ lastOp' = [Op("wheel") EXCEPT !.x = cameraZ, !.y = deltaY]
    /\ UNCHANGED <<lastFilter, data, phase, sceneVars, loopVars, sceneRotation,
                   controls, mouse, button, gesture>>
    /\ UNCHANGED appVars

\* resetCamera(), on the camera.
resetCameraZ == DefaultCameraZ * WheelUnitsPerZ

\* The elements a key press is targeted at: the page and the search input.
KeyTargets == {"BODY", "INPUT"}

\* A keydown event of the code `code`, without modifier keys, whose target
\* has the tag name `tagName`. It bubbles to the document, where the
\* engine's listener runs onKeyDown(event) whatever the target is; the app's
\* handleKeyboardShortcuts returns for an INPUT and acts, for other
\* targets, only on Escape and on keys with Ctrl or Meta. lastOp.x is 1
\* for a key press in the input and lastOp.y is 1 when preventDefault was
\* called.
KeyDown(code, tagName) ==
    /\ Running /\ button # "released"
    /\ isRotating' = IF code = "Space" THEN ~isRotating ELSE isRotating
    /\ userPaused' = IF code = "Space" THEN isRotating ELSE userPaused
    /\ cameraZ' = IF code = "KeyR" THEN resetCameraZ ELSE cameraZ
    /\ controls' = IF code = "KeyR"
                   THEN [controls EXCEPT !.targetRotationX = 0,
                                         !.targetRotationY = 0]
                   ELSE controls
    /\ emitted' = NoModel
    /\ lastOp' = [Op("keydown") EXCEPT !.id = code,
                                       !.x = IF tagName = "INPUT" THEN 1 ELSE 0,
                                       !.y = IF code = "Space" THEN 1 ELSE 0]
    /\ UNCHANGED <<lastFilter, data, phase, sceneVars, rotationY, rafPending,
                   sceneRotation, mouse, button, gesture>>
    /\ UNCHANGED <<searchVars, debounceVars, resizeVars, startVars, filterVars, viewHistory,
                   hidden>>

\* onKeyDown(event) for a key pressed on the page.
OnKeyDown(code) == KeyDown(code, "BODY")

\* A key typed into the search input.
OnKeyDownInInput(code) == KeyDown(code, "INPUT")

\* The document's visibilitychange listener, for a page that is hidden or
\* shown again: constellation.isRotating = !document.hidden.
OnVisibilityChange ==
    /\ Running /\ button # "released"
    /\ globalListeners
    /\ hidden' = ~hidden
    /\ isRotating' = ~hidden'
    /\ emitted' = NoModel
    /\ lastOp' = Op("visibilitychange")
    /\ UNCHANGED <<lastFilter, data, phase, sceneVars, rotationY, rafPending,
                   cameraZ, controls, sceneRotation, mouse, button, gesture>>
    /\ UNCHANGED <<searchVars, debounceVars, resizeVars, startVars, filterVars, viewHistory,
                   userPaused>>

\* animate() advancing the constellations whether or not isRotating is set.
animateRotationIgnoresFlag(rot, reg, rotating) ==
    [c \in DOMAIN rot |-> IF c \in DOMAIN reg THEN rot[c] + 1 ELSE rot[c]]

\* animate(), on constellation.rotation.y: this.constellations.forEach.
animateRotation(rot, reg, rotating) ==
    [c \in DOMAIN rot |->
        IF rotating /\ c \in DOMAIN reg THEN rot[c] + 1 ELSE rot[c]]

\* animate() requesting two frames for the one that ran.
animateRequestsTwice(pending) == (pending - 1) + 2

\* animate(), on the pending callbacks: the one that ran is gone, and
\* requestAnimationFrame adds one.
animateRequests(pending) == (pending - 1) + 1

\* One frame: the pending callback runs animate(), which requests the next.
Animate ==
    /\ Running /\ button # "released"
    /\ rafPending > 0
    /\ (isRotating => \A c \in DOMAIN constellations : rotationY[c] < MaxTicks)
    /\ rafPending' = animateRequests(rafPending)
    /\ rotationY' = animateRotation(rotationY, constellations, isRotating)
    /\ emitted' = NoModel
    /\ lastOp' = Op("animate")
    /\ UNCHANGED <<lastFilter, data, phase, sceneVars, isRotating, inputVars>>
    /\ UNCHANGED appVars

\* filterByCategory(visibleCategories)
FilterByCategory(visibleCategories) ==
    /\ Running /\ button # "released"
    /\ visible' = filterVisible(visible, constellations, visibleCategories)
    /\ emitted' = NoModel
    /\ lastOp' = [Op("filter") EXCEPT !.cats = visibleCategories]
    /\ lastFilter' = [called |-> TRUE, cats |-> visibleCategories]
    /\ UNCHANGED <<data, phase, stars, constellations, sceneChildren, scale,
                   emissiveIntensity, userData, selectedStar, rendererDisposed,
                   loopVars, inputVars>>
    /\ UNCHANGED appVars

\* highlightSearchResults(modelIds)
HighlightSearchResults(modelIds) ==
    /\ Running /\ button # "released"
    /\ scale' = highlightScale(scale, stars, modelIds)
    /\ emissiveIntensity' = highlightEmissive(emissiveIntensity, stars, modelIds)
    /\ emitted' = NoModel
    /\ lastOp' = [Op("highlight") EXCEPT !.ids = modelIds]
    /\ UNCHANGED <<lastFilter, data, phase, stars, constellations,
                   sceneChildren, visible, userData, selectedStar,
                   rendererDisposed, loopVars, inputVars>>
    /\ UNCHANGED appVars

\* resetHighlights()
ResetHighlights ==
    /\ Running /\ button # "released"
    /\ scale' = resetScale(scale, stars)
    /\ emissiveIntensity' = resetEmissive(emissiveIntensity, stars)
    /\ emitted' = NoModel
    /\ lastOp' = Op("resetHighlights")
    /\ UNCHANGED <<lastFilter, data, phase, stars, constellations,
                   sceneChildren, visible, userData, selectedStar,
                   rendererDisposed, loopVars, inputVars>>
    /\ UNCHANGED appVars

\* focusOnModel clearing the search input whether or not it found the star.
focusOnModelInputCleared(value, reg, modelId) == ""

\* focusOnModel, on this.searchInput.value: cleared when the star is found.
focusOnModelInput(value, reg, modelId) ==
    IF modelId \in DOMAIN reg THEN "" ELSE value

\* SearchManager.focusOnModel(modelId): selectStar on the registered star,
\* showModelDetails on its model, which the starSelected listeners have
\* shown already, then clearSearchResults, whose resetHighlights runs after
\* the selection.
FocusOnModel(modelId) ==
    /\ Running /\ button # "released"
    /\ searchManager
    /\ IF modelId \in DOMAIN stars
       THEN /\ scale' = resetScale(
                           selectStarScale(scale, selectedStar, stars[modelId]),
                           stars)
            /\ emissiveIntensity' = resetEmissive(emissiveIntensity, stars)
            /\ selectedStar' = stars[modelId]
            /\ emitted' = selectStarDetail(userData, stars[modelId])
            /\ currentSearchResults' = {}
       ELSE /\ UNCHANGED <<scale, emissiveIntensity, selectedStar,
                           currentSearchResults>>
            /\ emitted' = NoModel
    /\ viewHistory' = starSelectedHistory(viewHistory, manager, emitted')
    /\ searchInput' = focusOnModelInput(searchInput, stars, modelId)
    /\ lastOp' = [Op("focus") EXCEPT !.id = modelId, !.previous = selectedStar]
    /\ UNCHANGED <<lastFilter, data, phase, stars, constellations,
                   sceneChildren, visible, userData, rendererDisposed, loopVars,
                   inputVars>>
    /\ UNCHANGED <<resizeVars, startVars, filterVars, pageVars, debounceVars>>

\* dispose(): the registries are cleared; the scene graph, the listeners and
\* the requested frame stay.
Dispose ==
    /\ Running /\ button # "released"
    /\ rendererDisposed' = TRUE
    /\ stars' = EmptyMap
    /\ constellations' = EmptyMap
    /\ emitted' = NoModel
    /\ lastOp' = Op("dispose")
    /\ UNCHANGED <<lastFilter, data, phase, sceneChildren, visible, scale,
                   emissiveIntensity, userData, selectedStar, loopVars,
                   inputVars>>
    /\ UNCHANGED appVars

\* ------------------------------------------------------------------- search

\* What the user types into the search input.
Queries == {"", " ", "Trust", "about", "xyz"}

\* String.prototype.trim on the queries.
trim(query) == IF query = " " THEN "" ELSE query

\* String.prototype.toLowerCase on the texts of the model.
toLowerCase(t) ==
    CASE t = "Trust"           -> "trust"
      [] t = "Trust!"          -> "trust!"
      [] t = "Inversion"       -> "inversion"
      [] t = "about Trust"     -> "about trust"
      [] t = "about Trust!"    -> "about trust!"
      [] t = "about Inversion" -> "about inversion"
      [] OTHER                 -> t

\* String.prototype.includes on the lowercased texts and terms of the model.
includes(text, term) ==
    \/ term = ""
    \/ text = term
    \/ /\ term = "trust"
       /\ text \in {"trust!", "about trust", "about trust!"}
    \/ /\ term \in {"about", " "}
       /\ text \in {"about trust", "about trust!", "about inversion"}

\* MentalModelsParser.getAllModels: the models of every category.
getAllModels ==
    UNION { Range(data[k].models) : k \in DOMAIN data }

\* MentalModelsParser.searchModels(query), as the set of the ids found.
searchModels(query) ==
    IF query = "" THEN {}
    ELSE { m.id : m \in { m \in getAllModels :
                              \/ includes(toLowerCase(m.name), toLowerCase(query))
                              \/ includes(toLowerCase(m.description),
                                          toLowerCase(query)) } }

\* SearchManager.handleSearch(query): a query that trims to nothing clears
\* the results and the highlights, another one highlights what it finds.
handleSearch(query) ==
    IF trim(query) = ""
    THEN /\ currentSearchResults' = {}
         /\ scale' = resetScale(scale, stars)
         /\ emissiveIntensity' = resetEmissive(emissiveIntensity, stars)
    ELSE /\ currentSearchResults' = searchModels(query)
         /\ scale' = highlightScale(scale, stars, searchModels(query))
         /\ emissiveIntensity' =
                highlightEmissive(emissiveIntensity, stars, searchModels(query))

\* A call of SearchManager.handleSearch(query); it leaves the search input
\* as it is.
HandleSearch(query) ==
    /\ Running /\ button # "released"
    /\ searchManager
    /\ handleSearch(query)
    /\ emitted' = NoModel
    /\ lastOp' = [Op("search") EXCEPT !.id = query]
    /\ UNCHANGED <<lastFilter, data, phase, stars, constellations,
                   sceneChildren, visible, userData, selectedStar,
                   rendererDisposed, loopVars, inputVars, searchInput,
                   resizeVars, uiVars, debounceVars>>

\* ------------------------------------------------------------- search input

\* Times between two events of the search input, in ms.
SearchGaps == {100, 200, 300}

\* The input listener's timers without clearTimeout(this.searchTimeout).
inputTimersNoClear(timers, handle) == timers \cup {SearchDebounceMs}

\* The input listener, on the pending timers: clearTimeout(this.searchTimeout)
\* removes the timer the handle names, setTimeout(..., 300) adds one.
inputTimers(timers, handle) == (timers \ {handle}) \cup {SearchDebounceMs}

\* An input event of the search input, which now holds `query`. A timer
\* that is due runs before a later event is handled. An input event with no
\* timer pending begins a new burst.
OnSearchInput(query) ==
    /\ Running /\ button # "released"
    /\ searchManager
    /\ 0 \notin searchTimers
    /\ searchTimers # {} => burst < MaxInputs
    /\ searchInput' = query
    /\ searchTimers' = inputTimers(searchTimers, searchTimeout)
    /\ searchTimeout' = SearchDebounceMs
    /\ sinceInput' = 0
    /\ searchRuns' = IF searchTimers = {} THEN 0 ELSE searchRuns
    /\ burst' = IF searchTimers = {} THEN 1 ELSE burst + 1
    /\ emitted' = NoModel
    /\ lastOp' = [Op("input") EXCEPT !.id = query]
    /\ UNCHANGED <<lastFilter, data, phase, sceneVars, loopVars, inputVars,
                   currentSearchResults, resizeVars, uiVars>>

\* ms of time pass with no event; a pending search timer fires no later
\* than due.
SearchElapse(ms) ==
    /\ Running /\ button # "released"
    /\ searchTimers # {}
    /\ \A t \in searchTimers : ms <= t
    /\ searchTimers' = {t - ms : t \in searchTimers}
    /\ searchTimeout' = IF searchTimeout = NoTimer THEN NoTimer
                        ELSE searchTimeout - ms
    /\ sinceInput' = sinceInput + ms
    /\ UNCHANGED <<lastFilter, data, phase, sceneVars, loopVars, inputVars,
                   searchVars, resizeVars, uiVars, searchRuns, burst, emitted,
                   lastOp>>

\* The callback of a search timer: this.handleSearch(e.target.value), on
\* the value the input holds when the timer fires.
SearchTimeout ==
    /\ Running /\ button # "released"
    /\ 0 \in searchTimers
    /\ handleSearch(searchInput)
    /\ searchTimers' = searchTimers \ {0}
    /\ searchTimeout' = IF searchTimeout = 0 THEN NoTimer ELSE searchTimeout
    /\ searchRuns' = searchRuns + 1
    /\ emitted' = NoModel
    /\ lastOp' = [Op("searchTimeout") EXCEPT !.id = searchInput]
    /\ UNCHANGED <<lastFilter, data, phase, stars, constellations,
                   sceneChildren, visible, userData, selectedStar,
                   rendererDisposed, loopVars, inputVars, searchInput,
                   resizeVars, uiVars, sinceInput, burst>>

\* A click on the search button: this.handleSearch(this.searchInput.value)
\* at once; it leaves the timers alone.
OnSearchButton ==
    /\ Running /\ button # "released"
    /\ searchManager
    /\ 0 \notin searchTimers
    /\ handleSearch(searchInput)
    /\ emitted' = NoModel
    /\ lastOp' = [Op("searchButton") EXCEPT !.id = searchInput]
    /\ UNCHANGED <<lastFilter, data, phase, stars, constellations,
                   sceneChildren, visible, userData, selectedStar,
                   rendererDisposed, loopVars, inputVars, searchInput,
                   resizeVars, uiVars, debounceVars>>

\* ------------------------------------------------------------------- resize

\* Times between two events of the host, in ms.
ResizeGaps == {50, 200, 250}

\* A resize event of the window. The engine's own listener, there once the
\* engine is constructed, recomputes the projection at once; the app's
\* listener, there once addGlobalEventListeners has run, clears its pending
\* timer and sets a new one. A resize with no timer pending begins a new
\* burst.
OnResize ==
    /\ Running \/ globalListeners
    /\ resizes < MaxResizes
    /\ resizes' = resizes + 1
    /\ projections' = (IF resizeTimeout = NoTimer THEN 0 ELSE projections)
                      + (IF Running THEN 1 ELSE 0)
    /\ resizeTimeout' = IF globalListeners THEN DebounceMs ELSE resizeTimeout
    /\ emitted' = NoModel
    /\ lastOp' = Op("resize")
    /\ UNCHANGED <<lastFilter, data, phase, sceneVars, loopVars, inputVars,
                   searchVars, debounceVars, uiVars, clock>>

\* ms of time pass with no event; a pending timer fires no later than due.
Elapse(ms) ==
    /\ resizeTimeout # NoTimer
    /\ ms <= resizeTimeout
    /\ resizeTimeout' = resizeTimeout - ms
    /\ clock' = clock + ms
    /\ UNCHANGED <<lastFilter, data, phase, sceneVars, loopVars, inputVars,
                   searchVars, debounceVars, uiVars, resizes, projections, emitted, lastOp>>

\* The app's timer callback: constellation.onWindowResize(), when there is
\* a constellation.
ResizeTimeout ==
    /\ resizeTimeout = 0
    /\ resizeTimeout' = NoTimer
    /\ projections' = projections + (IF Running THEN 1 ELSE 0)
    /\ emitted' = NoModel
    /\ lastOp' = Op("resizeTimeout")
    /\ UNCHANGED <<lastFilter, data, phase, sceneVars, loopVars, inputVars,
                   searchVars, debounceVars, uiVars, clock, resizes>>

\* ------------------------------------------------------------------- parser

\* Lines of the markdown text, each as String.prototype.trim leaves it.
LinePool ==
    {"Mental models in Thinking",
     "**Mental models in Systems**",
     "| Trust | about Trust |",
     "| Trust! | about Trust! |",
     "| **Inversion** | about Inversion |",
     "| Trust | about | Trust |",
     "|---|---|",
     ""}

\* The header line of the markdown text for the category X.
header(X) == "Mental models in " \o X

\* The header lines of the configured categories.
HeaderPool == {header(X) : X \in DOMAIN categoryConfigs}

\* The lines parse() skips: empty, or starting with '|---' or '**|'.
isSkippedLine(line) == line \in {"", "|---|---|"}

\* MentalModelsParser.isCategoryHeader: the line starts with
\* 'Mental models in' or '**Mental models in'.
isCategoryHeader(line) ==
    \/ line \in {"Mental models in Thinking", "**Mental models in Systems**"}
    \/ line \in HeaderPool

\* MentalModelsParser.extractCategoryName on the headers of the pools: '**'
\* and the prefix removed, runs of white space made one space, and every
\* ' and ' replaced by ' & '.
extractCategoryName(line) ==
    CASE line = "Mental models in Thinking"    -> "Thinking"
      [] line = "**Mental models in Systems**" -> "Systems"
      [] line = "Mental models in Systems"     -> "Systems"
      [] line = "Mental models in Economics and Strategy"
            -> "Economics & Strategy"
      [] line = "Mental models in Human Nature and Judgment"
            -> "Human Nature & Judgment"
      [] line = "Mental models in Numeracy and Interpretation"
            -> "Numeracy & Interpretation"
      [] line = "Mental models in Biological World"  -> "Biological World"
      [] line = "Mental models in Physical World"    -> "Physical World"
      [] line = "Mental models in Military and War"  -> "Military & War"
      [] line = "Mental models in Political Failure" -> "Political Failure"
      [] line = "Mental models in Rule of Law"       -> "Rule of Law"

\* line.startsWith('|')
startsWithPipe(line) ==
    line \in {"| Trust | about Trust |", "| Trust! | about Trust! |",
              "| **Inversion** | about Inversion |",
              "| Trust | about | Trust |", "|---|---|"}

\* The cells of parseTableRow: the line without its outer pipes, split at
\* '|', each cell trimmed.
tableCells(line) ==
    CASE line = "| Trust | about Trust |"             -> <<"Trust", "about Trust">>
      [] line = "| Trust! | about Trust! |"           -> <<"Trust!", "about Trust!">>
      [] line = "| **Inversion** | about Inversion |" -> <<"**Inversion**", "about Inversion">>
      [] line = "| Trust | about | Trust |"           -> <<"Trust", "about", "Trust">>
      [] line = "|---|---|"                           -> <<"---", "---">>

\* MentalModelsParser.cleanText: '**' and '*' removed, spaces collapsed.
cleanText(text) == IF text = "**Inversion**" THEN "Inversion" ELSE text

\* parseTableRow returned null.
NoRow == NoModel

\* MentalModelsParser.parseTableRow(line) with this.currentCategory.
parseTableRow(line, currentCategory) ==
    LET cells == tableCells(line) IN
    IF Len(cells) # 2 THEN NoRow
    ELSE IF cleanText(cells[1]) = "" \/ cleanText(cells[2]) = "" THEN NoRow
    ELSE [name |-> cleanText(cells[1]),
          description |-> cleanText(cells[2]),
          id |-> generateId[cleanText(cells[1])],
          category |-> currentCategory]

\* this.categories[name] = []: a new key goes last, a key there already
\* keeps its place and loses its models.
setCategory(categories, name) ==
    IF \E k \in DOMAIN categories : categories[k].category = name
    THEN [k \in DOMAIN categories |->
             IF categories[k].category = name
             THEN [category |-> name, models |-> <<>>]
             ELSE categories[k]]
    ELSE Append(categories, [category |-> name, models |-> <<>>])

\* this.categories[name].push(model)
pushModel(categories, name, model) ==
    [k \in DOMAIN categories |->
        IF categories[k].category = name
        THEN [categories[k] EXCEPT !.models = Append(@, model)]
        ELSE categories[k]]

\* The loop of parse() from line i on: p.categories is this.categories as
\* the list of its entries, p.currentCategory is "" for null.
RECURSIVE parseLines(_, _, _)
parseLines(p, lines, i) ==
    IF i > Len(lines) THEN p
    ELSE LET line == lines[i] IN
         parseLines(
             IF isSkippedLine(line) THEN p
             ELSE IF isCategoryHeader(line)
             THEN [categories |-> setCategory(p.categories,
                                              extractCategoryName(line)),
                   currentCategory |-> extractCategoryName(line)]
             ELSE IF startsWithPipe(line) /\ p.currentCategory # ""
                     /\ parseTableRow(line, p.currentCategory) # NoRow
             THEN [p EXCEPT !.categories =
                      pushModel(@, p.currentCategory,
                                parseTableRow(line, p.currentCategory))]
             ELSE p,
             lines, i + 1)

\* MentalModelsParser.parse(markdownText), as Object.entries of its result.
parse(lines) ==
    parseLines([categories |-> <<>>, currentCategory |-> ""], lines, 1).categories

\* initApp: parser.parse(markdownData).
Parse ==
    /\ phase = "fetched"
    /\ phase' = "loading"
    /\ data' = parse(markdown)
    /\ emitted' = NoModel
    /\ lastOp' = Op("parse")
    /\ UNCHANGED <<lastFilter, sceneVars, loopVars, inputVars, appVars>>

\* ----------------------------------------------------------------- start-up

\* MentalModelsParser.getCategoryNames(): Object.keys(this.categories).
getCategoryNames == {data[k].category : k \in DOMAIN data}

\* What is left of initApp() once new ConstellationVisualization(...) has
\* returned or thrown. When it returned, new SearchManager(parser,
\* constellation) runs: createCategoryFilters makes a checked checkbox for
\* every category and adds it to activeFilters, and showAllCategories calls
\* filterByCategory with them. When it threw, the catch block calls
\* showError. Either way the promise of initApp() is fulfilled.
InitAppSettle ==
    /\ appPc = "initApp"
    /\ phase # "loading"
    /\ IF phase = "running"
       THEN /\ searchManager' = TRUE
            /\ checked' = [c \in getCategoryNames |-> TRUE]
            /\ activeFilters' = getCategoryNames
            /\ visible' = filterVisible(visible, constellations, getCategoryNames)
            /\ lastFilter' = [called |-> TRUE, cats |-> getCategoryNames]
            /\ UNCHANGED errorShown
       ELSE /\ errorShown' = TRUE
            /\ UNCHANGED <<searchManager, checked, activeFilters, visible,
                           lastFilter>>
    /\ appPc' = "then"
    /\ emitted' = NoModel
    /\ lastOp' = Op("initApp")
    /\ UNCHANGED <<data, phase, stars, constellations, sceneChildren, scale,
                   emissiveIntensity, userData, selectedStar, rendererDisposed,
                   loopVars, inputVars, searchVars, debounceVars, resizeVars, globalListeners,
                   markdown, managerClass, viewHistory, pageVars>>

\* initApp().then(...): addGlobalEventListeners().
InitAppThen ==
    /\ appPc = "then"
    /\ appPc' = "done"
    /\ globalListeners' = TRUE
    /\ emitted' = NoModel
    /\ lastOp' = Op("then")
    /\ UNCHANGED <<lastFilter, data, phase, sceneVars, loopVars, inputVars,
                   searchVars, debounceVars, resizeVars, searchManager, errorShown,
                   markdown, managerClass, filterVars, viewHistory, pageVars>>

\* ------------------------------------------------------------- view history

\* The models the user views in the history specification: one more than
\* the history holds, with ids 1 .. maxHistory + 1.
HistoryModels ==
    {[name |-> "", description |-> "", id |-> i, category |-> ""] :
         i \in 1..(maxHistory + 1)}

\* The models viewed next: any model of the history again, and of the
\* models not in it the one with the least id.
NextViewed ==
    {m \in HistoryModels :
        \/ inHistory(viewHistory, m)
        \/ \A n \in HistoryModels : ~inHistory(viewHistory, n) => m.id <= n.id}

\* showModelDetails(model) for a model the user views: addToHistory(model).
AddToHistory(model) ==
    /\ Running /\ button # "released"
    /\ searchManager /\ managerClass = 2
    /\ viewHistory' = addToHistory(viewHistory, model)
    /\ emitted' = NoModel
    /\ lastOp' = [Op("addToHistory") EXCEPT !.x = model.id]
    /\ UNCHANGED <<lastFilter, data, phase, sceneVars, loopVars, inputVars,
                   searchVars, debounceVars, resizeVars, startVars, filterVars, pageVars>>

\* A click on the clear-history button: clearHistory().
ClearHistory ==
    /\ Running /\ button # "released"
    /\ searchManager /\ managerClass = 2
    /\ viewHistory' = <<>>
    /\ emitted' = NoModel
    /\ lastOp' = Op("clearHistory")
    /\ UNCHANGED <<lastFilter, data, phase, sceneVars, loopVars, inputVars,
                   searchVars, debounceVars, resizeVars, startVars, filterVars, pageVars>>

\* ----------------------------------------------------------- category filters

\* The user clicks the checkbox of `category`, which changes its state;
\* the change listener calls handleCategoryFilter(e.target). The method of
\* the second class takes the checkbox. The method of the first class
\* takes an event and reads event.target.value, which throws on a checkbox,
\* before the filters are touched.
HandleCategoryFilter(category) ==
    /\ Running /\ button # "released"
    /\ searchManager
    /\ category \in DOMAIN checked
    /\ checked' = [checked EXCEPT ![category] = ~checked[category]]
    /\ IF managerClass = 1
       THEN UNCHANGED <<activeFilters, visible, lastFilter>>
       ELSE /\ activeFilters' = IF checked'[category]
                                THEN activeFilters \cup {category}
                                ELSE activeFilters \ {category}
            /\ visible' = filterVisible(visible, constellations, activeFilters')
            /\ lastFilter' = [called |-> TRUE, cats |-> activeFilters']
    /\ emitted' = NoModel
    /\ lastOp' = [Op("checkbox") EXCEPT !.id = category, !.cats = activeFilters']
    /\ UNCHANGED <<data, phase, stars, constellations, sceneChildren, scale,
                   emissiveIntensity, userData, selectedStar, rendererDisposed,
                   loopVars, inputVars, searchVars, debounceVars, resizeVars, startVars,
                   viewHistory, pageVars>>

\* Array.from(checkboxes).every((checkbox) => checkbox.checked)
allChecked(boxes) == \A c \in DOMAIN boxes : boxes[c]

\* A click on the show-all button with the second class:
\* SearchManager.toggleAllCategories().
ToggleAllCategories ==
    /\ Running /\ button # "released"
    /\ searchManager /\ managerClass = 2
    /\ checked' = [c \in DOMAIN checked |-> ~allChecked(checked)]
    /\ activeFilters' = IF allChecked(checked)
                        THEN activeFilters \ DOMAIN checked
                        ELSE activeFilters \cup DOMAIN checked
    /\ visible' = filterVisible(visible, constellations, activeFilters')
    /\ lastFilter' = [called |-> TRUE, cats |-> activeFilters']
    /\ emitted' = NoModel
    /\ lastOp' = [Op("showAll") EXCEPT !.cats = activeFilters',
                                      !.x = IF allChecked(checked) THEN 1 ELSE 0]
    /\ UNCHANGED <<data, phase, stars, constellations, sceneChildren, scale,
                   emissiveIntensity, userData, selectedStar, rendererDisposed,
                   loopVars, inputVars, searchVars, debounceVars, resizeVars, startVars,
                   viewHistory, pageVars>>

\* SearchManager.showAllCategories(), a method of both classes and what a
\* click on the show-all button runs with the first: every checkbox is
\* checked and its category added to the active filters.
ShowAllCategories ==
    /\ Running /\ button # "released"
    /\ searchManager
    /\ checked' = [c \in DOMAIN checked |-> TRUE]
    /\ activeFilters' = activeFilters \cup DOMAIN checked
    /\ visible' = filterVisible(visible, constellations, activeFilters')
    /\ lastFilter' = [called |-> TRUE, cats |-> activeFilters']
    /\ emitted' = NoModel
    /\ lastOp' = [Op("showAllCategories") EXCEPT !.cats = activeFilters']
    /\ UNCHANGED <<data, phase, stars, constellations, sceneChildren, scale,
                   emissiveIntensity, userData, selectedStar, rendererDisposed,
                   loopVars, inputVars, searchVars, debounceVars, resizeVars, startVars,
                   viewHistory, pageVars>>

\* setActiveFilters adding to the active filters without clearing them.
setActiveFiltersNoClear(active, boxes, filters) ==
    active \cup {c \in DOMAIN boxes : c \in filters}

\* SearchManager.setActiveFilters(filters), on this.activeFilters: cleared,
\* then the value of every checkbox that filters includes is added.
setActiveFilters(active, boxes, filters) ==
    {c \in DOMAIN boxes : c \in filters}

\* SearchManager.setActiveFilters(filters), a method of the first class.
SetActiveFilters(filters) ==
    /\ Running /\ button # "released"
    /\ searchManager /\ managerClass = 1
    /\ checked' = [c \in DOMAIN checked |-> c \in filters]
    /\ activeFilters' = setActiveFilters(activeFilters, checked, filters)
    /\ visible' = filterVisible(visible, constellations, activeFilters')
    /\ lastFilter' = [called |-> TRUE, cats |-> activeFilters']
    /\ emitted' = NoModel
    /\ lastOp' = [Op("setActiveFilters") EXCEPT !.cats = filters]
    /\ UNCHANGED <<data, phase, stars, constellations, sceneChildren, scale,
                   emissiveIntensity, userData, selectedStar, rendererDisposed,
                   loopVars, inputVars, searchVars, debounceVars, resizeVars, startVars,
                   viewHistory, pageVars>>

\* SearchManager.clearAll(), a method of the first class: the search input
\* is emptied, clearSearchResults, showAllCategories.
ClearAll ==
    /\ Running /\ button # "released"
    /\ searchManager /\ managerClass = 1
    /\ searchInput' = ""
    /\ currentSearchResults' = {}
    /\ scale' = resetScale(scale, stars)
    /\ emissiveIntensity' = resetEmissive(emissiveIntensity, stars)
    /\ checked' = [c \in DOMAIN checked |-> TRUE]
    /\ activeFilters' = activeFilters \cup DOMAIN checked
    /\ visible' = filterVisible(visible, constellations, activeFilters')
    /\ lastFilter' = [called |-> TRUE, cats |-> activeFilters']
    /\ emitted' = NoModel
    /\ lastOp' = [Op("clearAll") EXCEPT !.cats = activeFilters']
    /\ UNCHANGED <<data, phase, stars, constellations, sceneChildren, userData,
                   selectedStar, rendererDisposed, loopVars, inputVars,
                   debounceVars, resizeVars, startVars, viewHistory, pageVars>>

\* ----------------------------------------------------------- specifications

\* The scene under the commands of the user interface and clicks.
Next ==
    \/ Construct
    \/ InitAppSettle
    \/ searchManager /\ OnMouseDown
    \/ searchManager /\ OnMouseUp
    \/ searchManager /\ \E intersects \in HitLists : OnMouseClick(intersects)
    \/ \E modelId \in IdUniverse : FocusOnModel(modelId)
    \/ searchManager /\ \E modelIds \in SUBSET IdUniverse :
                            HighlightSearchResults(modelIds)
    \/ searchManager /\ ResetHighlights
    \/ searchManager /\ \E cats \in SUBSET FilterUniverse : FilterByCategory(cats)
    \/ searchManager /\ Dispose

Spec == Init /\ [][Next]_vars

\* Scene building alone, over every input mapping of at most MaxEntries
\* categories, in every key order, with at most MaxModels models in all.
InitBuild ==
    \E keys \in InputKeys : \E names \in SeqsUpTo(ModelNames, MaxModels) :
        InitWith(InputsOf(keys, names))

SpecBuild == InitBuild /\ [][Construct]_vars

\* The input of the pointer, key and history specifications: one star.
InputInputs == {<<Entry("Thinking", <<"Trust">>)>>}

InitInput == InitWith(InputInputs)

\* The parser, over every markdown text of at most MaxLines lines of the pool.
InitParse ==
    /\ markdown \in SeqsUpTo(LinePool, MaxLines)
    /\ phase = "fetched"
    /\ data = <<>>
    /\ managerClass = AppManagerClass
    /\ InitState

SpecParse == InitParse /\ [][Parse]_vars

\* The lines of the header specification: the headers of the configured
\* categories and two table rows.
HeaderLines ==
    HeaderPool \cup {"| Trust | about Trust |",
                     "| **Inversion** | about Inversion |"}

\* The parser and then the engine, over every markdown text of at most
\* MaxHeaderLines of these lines.
InitHeaders ==
    /\ markdown \in SeqsUpTo(HeaderLines, MaxHeaderLines)
    /\ phase = "fetched"
    /\ data = <<>>
    /\ managerClass = AppManagerClass
    /\ InitState

NextHeaders ==
    \/ Parse
    \/ Construct

SpecHeaders == InitHeaders /\ [][NextHeaders]_vars

\* The start of the app, over the input mappings of SpecBuild.
NextStartup ==
    \/ Construct
    \/ InitAppSettle
    \/ InitAppThen

SpecStartup == InitBuild /\ [][NextStartup]_vars

\* The input of the command specification: a star in each of two categories.
CommandInputs ==
    {<<Entry("Thinking", <<"Trust">>), Entry("Systems", <<"Inversion">>)>>}

\* Pointer gestures on the canvas, and the keyboard.
NextPointer ==
    \/ Construct
    \/ \E p \in PointerPositions : OnMouseMove(p)
    \/ OnMouseDown
    \/ OnMouseUp
    \/ OnMouseUpOutside
    \/ \E intersects \in HitLists : OnMouseClick(intersects)
    \/ \E code \in KeyCodes : OnKeyDown(code)

SpecPointer == InitInput /\ [][NextPointer]_vars

\* The wheel, the keyboard, the frames of the render loop and disposal.
NextFrames ==
    \/ Construct
    \/ \E deltaY \in WheelDeltas : OnMouseWheel(deltaY)
    \/ \E delta \in PinchDeltas : OnPinch(delta)
    \/ \E code \in KeyCodes : OnKeyDown(code)
    \/ Animate
    \/ Dispose

\* The inputs of the frame specification: one star, and a star in each of
\* two categories.
FrameInputs == InputInputs \cup CommandInputs

InitFrames == InitWith(FrameInputs)

SpecFrames == InitFrames /\ [][NextFrames]_vars

\* The input of the search specification: two stars of one category.
SearchInputs == {<<Entry("Thinking", <<"Trust", "Inversion">>)>>}

InitSearch == InitWith(SearchInputs)

\* The search box, focus from a search result, and clicks.
NextSearch ==
    \/ Construct
    \/ InitAppSettle
    \/ \E query \in Queries : OnSearchInput(query)
    \/ \E ms \in SearchGaps : SearchElapse(ms)
    \/ SearchTimeout
    \/ OnSearchButton
    \/ \E query \in Queries : HandleSearch(query)
    \/ \E modelId \in IdUniverse : FocusOnModel(modelId)
    \/ OnMouseDown
    \/ OnMouseUp
    \/ \E intersects \in HitLists : OnMouseClick(intersects)

SpecSearch == InitSearch /\ [][NextSearch]_vars

\* The search input, its button and the passing of time.
NextInput ==
    \/ Construct
    \/ InitAppSettle
    \/ \E query \in Queries : OnSearchInput(query)
    \/ \E ms \in SearchGaps : SearchElapse(ms)
    \/ SearchTimeout
    \/ OnSearchButton

SpecInput == InitSearch /\ [][NextInput]_vars

\* The inputs of the resize specification: one star, and a category key
\* with which the engine's constructor throws.
ResizeInputs == InputInputs \cup {<<Entry("constructor", <<>>)>>}

\* The start of the app, resize events of the window and the passing of
\* time.
NextResize ==
    \/ Construct
    \/ InitAppSettle
    \/ InitAppThen
    \/ OnResize
    \/ \E ms \in ResizeGaps : Elapse(ms)
    \/ ResizeTimeout

SpecResize == InitWith(ResizeInputs) /\ [][NextResize]_vars

InitCommands == InitWith(CommandInputs)

\* The inputs of the filter specification: two categories with a star each,
\* alone and before a category that the configuration table does not list.
FilterInputs ==
    CommandInputs \cup
    {<<Entry("Thinking", <<"Trust">>), Entry("Systems", <<"Inversion">>),
       Entry("Astrology", <<"Trust!">>)>>}

\* The filter specification runs with either class of search manager.
InitFilter ==
    /\ data \in FilterInputs
    /\ phase = "loading"
    /\ markdown = <<>>
    /\ managerClass \in {1, 2}
    /\ InitState

\* The category checkboxes, the show-all button and the calls that set the
\* filters, each with the class that has it, with clicks on the canvas
\* between them; initApp runs to its end before the first event.
NextFilter ==
    \/ Construct
    \/ InitAppSettle
    \/ \E category \in CategoryKeys : HandleCategoryFilter(category)
    \/ ToggleAllCategories
    \/ ShowAllCategories
    \/ \E filters \in SUBSET FilterUniverse : SetActiveFilters(filters)
    \/ ClearAll
    \/ searchManager /\ OnMouseDown
    \/ searchManager /\ OnMouseUp
    \/ searchManager /\ \E intersects \in HitLists : OnMouseClick(intersects)

SpecFilter == InitFilter /\ [][NextFilter]_vars

\* The keyboard, the wheel, the page's visibility and the frames, once the
\* application has started.
NextKeys ==
    \/ Construct
    \/ InitAppSettle
    \/ InitAppThen
    \/ \E code \in KeyCodes : OnKeyDown(code)
    \/ \E code \in KeyCodes : OnKeyDownInInput(code)
    \/ \E deltaY \in WheelDeltas : OnMouseWheel(deltaY)
    \/ OnVisibilityChange
    \/ Animate

SpecKeys == InitInput /\ [][NextKeys]_vars

\* The view history of the search manager, on the one-star scene.
NextHistory ==
    \/ Construct
    \/ InitAppSettle
    \/ \E model \in NextViewed : AddToHistory(model)
    \/ ClearHistory

SpecHistory == InitInput /\ [][NextHistory]_vars

\* The commands of the engine on a scene that clicks, highlights and frames
\* have changed.
NextCommands ==
    \/ Construct
    \/ OnMouseDown
    \/ OnMouseUp
    \/ \E intersects \in HitLists : OnMouseClick(intersects)
    \/ \E modelIds \in SUBSET IdUniverse : HighlightSearchResults(modelIds)
    \/ \E cats \in SUBSET FilterUniverse : FilterByCategory(cats)
    \/ Animate
    \/ Dispose

SpecCommands == InitCommands /\ [][NextCommands]_vars

\* ------------------------------------------------------------------- claims

\* The star a click resolved and selected, or NoStar.
Picked == clickedStar(lastOp.hits)

\* C1: select(A) then select(B), A # B: A is back at the baseline scale, B has
\* the selection scale 1.5 and B is the recorded selected star. A click that
\* selects is a call of selectStar; A is the star recorded before it.
C1_SelectAThenB ==
    (/\ lastOp.op = "click"
     /\ Picked # NoStar
     /\ lastOp.previous # NoStar
     /\ lastOp.previous # Picked)
    => /\ scale[lastOp.previous] = BaseScale
       /\ scale[Picked] = SelectedScale
       /\ selectedStar = Picked

C1_Witness ==
    /\ lastOp.op = "click"
    /\ Picked # NoStar
    /\ lastOp.previous \notin {NoStar, Picked}
    /\ selectedStar = Picked
    /\ scale[Picked] = SelectedScale
    /\ scale[lastOp.previous] = BaseScale

\* C2: after setHighlighted(S2), whatever was highlighted before, every
\* entity whose id is in S2 has the highlighted emissive intensity and scale
\* 1.3, and every other entity has the baseline of both.
C2_HighlightOverwrites ==
    lastOp.op = "highlight" =>
        \A s \in DOMAIN scale :
            IF userData[s].id \in lastOp.ids
            THEN scale[s] = HighlightScale /\ emissiveIntensity[s] = HighlightEmissive
            ELSE scale[s] = BaseScale /\ emissiveIntensity[s] = BaseEmissive

\* No two stars of the scene carry the same model id.
DistinctIds ==
    \A s, t \in DOMAIN userData : userData[s].id = userData[t].id => s = t

\* C2, for a scene that is not disposed and whose model ids are distinct.
C2_HighlightOverwritesDistinctIds ==
    (~rendererDisposed /\ DistinctIds) => C2_HighlightOverwrites

\* C3: once setVisibleCategories was given a set without category C, and until
\* it is given one with C, a click whose nearest hit is an entity of C (or its
\* halo) leaves the selection as it was and dispatches no event.
C3_HiddenUnpickable ==
    (/\ lastOp.op = "click"
     /\ Len(lastOp.hits) > 0
     /\ lastFilter.called
     /\ hasName(findStar(lastOp.hits[1]))
     /\ findStar(lastOp.hits[1]).cat \notin lastFilter.cats)
    => /\ selectedStar = lastOp.previous
       /\ emitted = NoModel

\* C3, for a scene that is not disposed.
C3_HiddenUnpickableLive == ~rendererDisposed => C3_HiddenUnpickable

\* C3, by the flag the click reads: no click selects a star of a group that
\* is not visible.
C3_InvisibleGroupUnpickable ==
    (/\ lastOp.op = "click"
     /\ Len(lastOp.hits) > 0
     /\ hasName(findStar(lastOp.hits[1]))
     /\ ~visible[findStar(lastOp.hits[1]).cat])
    => /\ selectedStar = lastOp.previous
       /\ emitted = NoModel

\* C4: the camera distance stays in [20, 100] under wheel input of any sign
\* and size and under camera resets, and a wheel step that would pass a bound
\* leaves the distance at that bound.
C4_CameraDistanceClamped ==
    Running =>
        /\ cameraZ >= MinCameraZ * WheelUnitsPerZ
        /\ cameraZ <= MaxCameraZ * WheelUnitsPerZ
        /\ lastOp.op = "wheel" =>
              cameraZ = IF lastOp.x + lastOp.y > MaxCameraZ * WheelUnitsPerZ
                        THEN MaxCameraZ * WheelUnitsPerZ
                        ELSE IF lastOp.x + lastOp.y < MinCameraZ * WheelUnitsPerZ
                        THEN MinCameraZ * WheelUnitsPerZ
                        ELSE lastOp.x + lastOp.y

C4_Witness ==
    /\ lastOp.op = "wheel"
    /\ lastOp.x + lastOp.y > MaxCameraZ * WheelUnitsPerZ
    /\ lastOp.x < MaxCameraZ * WheelUnitsPerZ
    /\ cameraZ = MaxCameraZ * WheelUnitsPerZ

\* C5: a press, move and release that never left the 5px tap threshold is a
\* tap: its click picks and selects the star under the pointer, and the scene
\* rotation is what it was at the press.
C5_TapSelectsWithoutRotation ==
    (lastOp.op = "click" /\ ~gesture.moved) =>
        /\ sceneRotation = [x |-> gesture.rotX, y |-> gesture.rotY]
        /\ Picked # NoStar => selectedStar = Picked /\ emitted = userData[Picked]

\* C5, the pick alone: the click of a tap selects the star it resolves.
C5_TapSelects ==
    (lastOp.op = "click" /\ ~gesture.moved /\ Picked # NoStar) =>
        selectedStar = Picked /\ emitted = userData[Picked]

\* C6: a press, move and release that went 5px or more from the press in
\* some axis is a drag: its release selects nothing and dispatches no event.
C6_DragSelectsNothing ==
    (lastOp.op = "click" /\ gesture.moved) =>
        /\ emitted = NoModel
        /\ selectedStar = lastOp.previous

\* The categories of the input that the configuration table lists.
ConfiguredKeys ==
    {data[k].category : k \in DOMAIN data} \cap DOMAIN categoryConfigs

RECURSIVE SeqSum(_)
SeqSum(s) == IF s = <<>> THEN 0 ELSE Head(s) + SeqSum(Tail(s))

\* The number of models in the categories the table lists.
ConfiguredModelCount ==
    SeqSum([k \in DOMAIN data |->
               IF data[k].category \in DOMAIN categoryConfigs
               THEN Len(data[k].models) ELSE 0])

\* The build as C7 describes it: one cluster per category of both the input
\* and the table, none and no entity for any other category.
ClustersAsConfigured ==
    /\ Cardinality(DOMAIN constellations) = Cardinality(ConfiguredKeys)
    /\ DOMAIN constellations = ConfiguredKeys
    /\ sceneChildren = {Group(c) : c \in ConfiguredKeys}
    /\ \A s \in DOMAIN userData : s.cat \in ConfiguredKeys
    /\ \A k \in DOMAIN data :
          (data[k].category \in ConfiguredKeys /\ data[k].models = <<>>)
          => /\ data[k].category \in DOMAIN constellations
             /\ ~\E s \in DOMAIN userData : s.cat = data[k].category

\* C7: for every input mapping the build ends without error, with one
\* cluster per category of both the input and the configuration table; a
\* category outside the table gets no cluster and no entity, a listed one
\* with no items an empty cluster.
C7_ClusterPerConfiguredCategory ==
    phase # "loading" => (phase = "running" /\ ClustersAsConfigured)

\* C7, for the inputs none of whose keys Object.prototype defines.
C7_ClusterPerOwnKey ==
    (/\ phase # "loading"
     /\ \A k \in DOMAIN data : data[k].category \notin ObjectPrototypeKeys)
    => (phase = "running" /\ ClustersAsConfigured)

\* The star built for the i-th model of the k-th entry carries that model
\* and is the only star of its place.
CarriedByOneStar(k, i) ==
    /\ Star(data[k].category, i) \in DOMAIN userData
    /\ userData[Star(data[k].category, i)] = data[k].models[i]
    /\ Cardinality({s \in DOMAIN userData :
                       s.cat = data[k].category /\ s.idx = i}) = 1

\* C8: after the build every model of the input is carried by exactly one
\* star, and the registry maps the model's id to that star.
C8_EveryItemOneEntity ==
    phase = "running" =>
        \A k \in DOMAIN data : \A i \in DOMAIN data[k].models :
            /\ CarriedByOneStar(k, i)
            /\ data[k].models[i].id \in DOMAIN stars
            /\ stars[data[k].models[i].id] = Star(data[k].category, i)

\* The places <<k, i>> of the models of listed categories, and their order in
\* the build.
ConfiguredPlaces ==
    {p \in (DOMAIN data) \X (1..MaxModels) :
        /\ data[p[1]].category \in DOMAIN categoryConfigs
        /\ p[2] \in DOMAIN data[p[1]].models}

Before(p, q) == p[1] < q[1] \/ (p[1] = q[1] /\ p[2] < q[2])

\* C8 as amended: after a build that completes, every model of a category
\* the table lists is carried by exactly one star, there are no other
\* stars, and the registry maps each id to the star of the last model built
\* with that id: the model's own star when no later model shares its id.
C8_ConfiguredItemsRegistered ==
    phase = "running" =>
        /\ Cardinality(DOMAIN userData) = ConfiguredModelCount
        /\ DOMAIN stars = {data[p[1]].models[p[2]].id : p \in ConfiguredPlaces}
        /\ \A p \in ConfiguredPlaces :
              /\ CarriedByOneStar(p[1], p[2])
              /\ (~\E q \in ConfiguredPlaces :
                      /\ Before(p, q)
                      /\ data[q[1]].models[q[2]].id = data[p[1]].models[p[2]].id)
                 => stars[data[p[1]].models[p[2]].id]
                      = Star(data[p[1]].category, p[2])

C8_Witness ==
    /\ phase = "running"
    /\ \E k \in DOMAIN data :
          data[k].category \notin DOMAIN categoryConfigs /\ data[k].models # <<>>
    /\ \E s, t \in DOMAIN userData :
          /\ s # t
          /\ userData[s].id = userData[t].id
          /\ stars[userData[s].id] = t

\* C9: after dispose() the star and constellation registries are empty, and
\* neither a click aimed at a star nor focus(id) changes the selected star or
\* dispatches an event.
C9_DisposedSelectsNothing ==
    rendererDisposed =>
        /\ stars = EmptyMap
        /\ constellations = EmptyMap
        /\ lastOp.op \in {"click", "focus"} =>
              selectedStar = lastOp.previous /\ emitted = NoModel

\* C9, without the click: the registries are empty and focus does nothing.
C9_DisposedFocusDoesNothing ==
    rendererDisposed =>
        /\ stars = EmptyMap
        /\ constellations = EmptyMap
        /\ lastOp.op = "focus" =>
              selectedStar = lastOp.previous /\ emitted = NoModel

\* C10: once dispose() was called no frame of the render loop runs and none
\* is requested.
C10_NoFrameAfterDispose ==
    rendererDisposed => (lastOp.op # "animate" /\ rafPending = 0)

\* C10, the frame alone: no animate() runs after dispose().
C10_NoFrameRunsAfterDispose ==
    rendererDisposed => lastOp.op # "animate"

\* C11: a burst of resize events, each less than the debounce interval after
\* the one before, recomputes the camera projection not at all while it
\* lasts and exactly once when it has been quiet for the interval.
C11_ResizeDebounced ==
    resizes > 0 =>
        IF resizeTimeout # NoTimer THEN projections = 0 ELSE projections = 1

\* C11, what the two listeners of a running app do together: when the
\* app's timer has fired, the projection was recomputed at every event of
\* the burst and once more.
C11_OnePerEventAndOneAfter ==
    (lastOp.op = "resizeTimeout" /\ Running) => projections >= 2

\* C12: focus(id) with an id that is not in the star registry changes
\* nothing: the selected star, every star's scale and emissive intensity, the
\* search results and the search input stay, and no event is dispatched.
C12_FocusUnknownIsNoOp ==
    [][(lastOp'.op = "focus" /\ lastOp'.id \notin DOMAIN stars)
       => /\ UNCHANGED <<selectedStar, scale, emissiveIntensity,
                         currentSearchResults, searchInput>>
          /\ emitted' = NoModel]_vars

C12_Witness ==
    /\ lastOp.op = "focus"
    /\ lastOp.id \notin DOMAIN stars
    /\ searchInput # ""
    /\ currentSearchResults # {}
    /\ selectedStar # NoStar
    /\ \E s \in DOMAIN scale : scale[s] = HighlightScale

\* C13: when focus(id) with a registered id returns, the star of that id is
\* the selected star and has the selection scale 1.5.
C13_FocusSelectsEnlarged ==
    (lastOp.op = "focus" /\ lastOp.id \in DOMAIN stars)
    => /\ selectedStar = stars[lastOp.id]
       /\ scale[selectedStar] = SelectedScale

\* C13, what focus leaves: the star is recorded as selected, at scale 1.
C13_FocusSelectsAtBaseline ==
    (lastOp.op = "focus" /\ lastOp.id \in DOMAIN stars)
    => /\ selectedStar = stars[lastOp.id]
       /\ scale[selectedStar] = BaseScale

\* The model of the input that the star was built for.
ItemOf(star) ==
    data[CHOOSE k \in DOMAIN data : data[k].category = star.cat].models[star.idx]

\* C14: a click that selects a star and a focus with a registered id dispatch
\* starSelected with the model of the selected star (name, description,
\* category); a click that selects nothing and a focus with an unregistered
\* id dispatch nothing.
C14_SelectionEmitsItem ==
    /\ lastOp.op = "click" =>
          IF selectedStar # lastOp.previous \/ Picked # NoStar
          THEN emitted = ItemOf(selectedStar) /\ selectedStar = Picked
          ELSE emitted = NoModel
    /\ lastOp.op = "focus" =>
          IF lastOp.id \in DOMAIN stars
          THEN emitted = ItemOf(selectedStar) /\ selectedStar = stars[lastOp.id]
          ELSE emitted = NoModel

C14_Witness ==
    /\ lastOp.op = "click"
    /\ Picked # NoStar
    /\ lastOp.previous # NoStar
    /\ emitted = ItemOf(Picked)
    /\ emitted.name = "Trust!"
    /\ emitted.category = "Systems"

\* C15: a click that selects the star that is already selected leaves it
\* at the selection scale 1.5 and selected, changes no other star's scale, no
\* emissive intensity and no visibility, and dispatches starSelected again.
C15_ReselectIdempotent ==
    [][(/\ lastOp'.op = "click"
        /\ Picked' # NoStar
        /\ Picked' = selectedStar)
       => /\ selectedStar' = selectedStar
          /\ scale'[selectedStar] = SelectedScale
          /\ \A s \in DOMAIN scale : s # selectedStar => scale'[s] = scale[s]
          /\ UNCHANGED <<emissiveIntensity, visible>>
          /\ emitted' = ItemOf(selectedStar)]_vars

C15_Witness ==
    /\ lastOp.op = "click"
    /\ Picked # NoStar
    /\ lastOp.previous = Picked
    /\ selectedStar = Picked
    /\ scale[Picked] = SelectedScale
    /\ emitted = ItemOf(Picked)
    /\ \E s \in DOMAIN scale : s # Picked /\ scale[s] = HighlightScale

\* The scene node o is a star of a visible group, or the glow of one.
OnVisibleStar(o) ==
    \E s \in DOMAIN userData :
        /\ o \in {s, Glow(s.cat, s.idx)}
        /\ visible[s.cat]

\* C16: a click whose ray hits nothing, or only nodes that belong to no
\* star, or only stars of invisible groups, changes nothing: the selected
\* star, every scale and emissive intensity and the visibilities stay, and
\* no event is dispatched.
C16_MissChangesNothing ==
    [][(/\ lastOp'.op = "click"
        /\ \A i \in 1..Len(lastOp'.hits) :
              ~OnVisibleStar(lastOp'.hits[i]))
       => /\ UNCHANGED <<selectedStar, scale, emissiveIntensity, visible,
                         stars, constellations>>
          /\ emitted' = NoModel]_vars

C16_Witness ==
    /\ lastOp.op = "click"
    /\ Len(lastOp.hits) = MaxHits
    /\ lastOp.hits[1].kind = "star"
    /\ ~visible[lastOp.hits[1].cat]
    /\ \A i \in 1..Len(lastOp.hits) : ~OnVisibleStar(lastOp.hits[i])
    /\ selectedStar # NoStar
    /\ selectedStar = lastOp.previous
    /\ scale[selectedStar] = SelectedScale
    /\ emitted = NoModel

\* The first of the intersections that belongs to a star of a visible group.
FirstVisibleHit(hits) ==
    findStar(hits[CHOOSE i \in 1..Len(hits) :
                     /\ OnVisibleStar(hits[i])
                     /\ \A j \in 1..(i - 1) : ~OnVisibleStar(hits[j])])

\* C17: whenever some intersection of the click's ray belongs to a star of a
\* visible group, the click selects the nearest such star, also when a
\* nearer intersection is no star or a star of a hidden group.
C17_NearestVisibleEntityPicked ==
    (/\ lastOp.op = "click"
     /\ \E i \in 1..Len(lastOp.hits) : OnVisibleStar(lastOp.hits[i]))
    => /\ selectedStar = FirstVisibleHit(lastOp.hits)
       /\ emitted = ItemOf(FirstVisibleHit(lastOp.hits))

\* C17, what the click does: a click that changes the selection selects the
\* star of the nearest intersection.
C17_NearestHitDecides ==
    (lastOp.op = "click" /\ emitted # NoModel)
    => /\ Len(lastOp.hits) > 0
       /\ selectedStar = findStar(lastOp.hits[1])

\* C18: the ray of a tap's click is cast at the coordinates where the tap
\* went down, whatever the events before it.
C18_TapPickedWhereItWentDown ==
    (lastOp.op = "click" /\ ~gesture.moved)
    => [x |-> lastOp.x, y |-> lastOp.y] = mouseNDC(gesture.downX, gesture.downY)

\* C18, what the click does: once the pointer has moved on the canvas, the
\* ray is cast where the last mousemove was.
C18_RayAtLastMove ==
    (/\ lastOp.op = "click"
     /\ controls.mouseX = gesture.x
     /\ controls.mouseY = gesture.y)
    => [x |-> lastOp.x, y |-> lastOp.y] = mouseNDC(gesture.x, gesture.y)

\* C19: a move of a two-pointer gesture that changes the distance between
\* the pointers changes the camera distance, within [20, 100].
C19_PinchZooms ==
    (/\ lastOp.op = "pinch"
     /\ lastOp.y # 0
     /\ lastOp.x > MinCameraZ * WheelUnitsPerZ
     /\ lastOp.x < MaxCameraZ * WheelUnitsPerZ)
    => /\ cameraZ # lastOp.x
       /\ cameraZ >= MinCameraZ * WheelUnitsPerZ
       /\ cameraZ <= MaxCameraZ * WheelUnitsPerZ

\* C19, what the engine does: a two-pointer move leaves the camera alone.
C19_PinchIgnored == lastOp.op = "pinch" => cameraZ = lastOp.x

\* C20: once the button is up, wherever it was released, a pointer move
\* over the canvas does not rotate the scene.
C20_NoRotationAfterRelease ==
    [][(lastOp'.op = "mousemove" /\ button = "up")
       => sceneRotation' = sceneRotation]_vars

\* C20, for releases on the canvas: a move rotates only while isMouseDown,
\* which a press sets and a release on the canvas clears.
C20_NoRotationUnlessMouseDown ==
    [][(lastOp'.op = "mousemove" /\ ~controls.isMouseDown)
       => sceneRotation' = sceneRotation]_vars

\* C21: after filterByCategory(categories) every group of the scene is
\* visible exactly when its category is among `categories`, and the call
\* changes nothing else: not the selected star, no scale, no emissive
\* intensity, no rotation and not the camera.
C21_FilterSetsVisibilityOnly ==
    [][lastOp'.op = "filter"
       => /\ \A c \in DOMAIN visible' :
                visible'[c] = (c \in lastOp'.cats)
          /\ DOMAIN visible' = DOMAIN visible
          /\ UNCHANGED <<selectedStar, scale, emissiveIntensity, rotationY,
                         isRotating, sceneRotation, cameraZ, stars,
                         constellations>>]_vars

\* C21, for the groups the registry holds: filterByCategory(categories)
\* leaves each of them visible exactly when its category is among
\* `categories`, leaves the flag of every other group of the scene as it
\* was, and changes nothing else.
C21_FilterSetsRegisteredOnly ==
    [][lastOp'.op = "filter"
       => /\ \A c \in DOMAIN constellations :
                visible'[c] = (c \in lastOp'.cats)
          /\ \A c \in DOMAIN visible \ DOMAIN constellations :
                visible'[c] = visible[c]
          /\ DOMAIN visible' = DOMAIN visible
          /\ UNCHANGED <<selectedStar, scale, emissiveIntensity, rotationY,
                         isRotating, sceneRotation, cameraZ, stars,
                         constellations>>]_vars

\* C21, a filter call on a live engine whose selection, scales and
\* rotations were changed before it.
C21_LiveFilter ==
    /\ lastOp.op = "filter"
    /\ lastOp.cats = {"Systems", "Astrology"}
    /\ ~visible["Thinking"]
    /\ visible["Systems"]
    /\ selectedStar = Star("Thinking", 1)
    /\ scale[Star("Systems", 1)] = HighlightScale
    /\ rotationY["Thinking"] = MaxTicks

\* C21, a filter call after dispose(): a group of the scene is still
\* visible although its category is not among `categories`.
C21_FilterAfterDispose ==
    /\ lastOp.op = "filter"
    /\ rendererDisposed
    /\ \E c \in DOMAIN visible : visible[c] /\ c \notin lastOp.cats

\* C22: after resetHighlights() every star has the baseline emissive
\* intensity and the baseline scale, the selected star included.
C22_ResetRevertsEveryEntity ==
    lastOp.op = "resetHighlights" =>
        \A s \in DOMAIN scale :
            scale[s] = BaseScale /\ emissiveIntensity[s] = BaseEmissive

\* C22, for the stars the registry holds: after resetHighlights() each of
\* them is at the baseline, selected or not.
C22_ResetRevertsRegistered ==
    lastOp.op = "resetHighlights" =>
        \A s \in Range(stars) :
            scale[s] = BaseScale /\ emissiveIntensity[s] = BaseEmissive

\* C23: after the reset-camera command the camera is at distance 50 and
\* the rotation that drags gave the scene is back to zero.
C23_ResetRestoresDefaultView ==
    (lastOp.op = "keydown" /\ lastOp.id = "KeyR")
    => /\ cameraZ = DefaultCameraZ * WheelUnitsPerZ
       /\ sceneRotation = [x |-> 0, y |-> 0]

\* C23, the distance alone: after the command the camera is at distance 50
\* and the rotation targets of the controls are zero.
C23_ResetRestoresDistance ==
    (lastOp.op = "keydown" /\ lastOp.id = "KeyR")
    => /\ cameraZ = DefaultCameraZ * WheelUnitsPerZ
       /\ controls.targetRotationX = 0
       /\ controls.targetRotationY = 0

\* C24: a frame run while isRotating is set advances the rotation of every
\* group of the scene by the same increment, rotationSpeed; a frame run
\* while it is clear changes no rotation; the Space key flips the flag and
\* changes no rotation itself.
C24_FrameRotatesWhenEnabled ==
    [][/\ lastOp'.op = "animate" =>
             IF isRotating
             THEN \A c \in DOMAIN rotationY :
                        rotationY'[c] = rotationY[c] + 1
             ELSE rotationY' = rotationY
       /\ (lastOp'.op = "keydown" /\ lastOp'.id = "Space") =>
             /\ isRotating' = ~isRotating
             /\ rotationY' = rotationY]_vars

\* C24, for the groups the registry holds: a frame run while isRotating is
\* set advances each of them by rotationSpeed and no other group of the
\* scene; a frame run while it is clear changes no rotation; the Space key
\* flips the flag and changes no rotation itself.
C24_FrameRotatesRegistered ==
    [][/\ lastOp'.op = "animate" =>
             IF isRotating
             THEN /\ \A c \in DOMAIN constellations :
                        rotationY'[c] = rotationY[c] + 1
                  /\ \A c \in DOMAIN rotationY \ DOMAIN constellations :
                        rotationY'[c] = rotationY[c]
             ELSE rotationY' = rotationY
       /\ (lastOp'.op = "keydown" /\ lastOp'.id = "Space") =>
             /\ isRotating' = ~isRotating
             /\ rotationY' = rotationY]_vars

\* C24, frames of a live engine: two groups advanced together as far as
\* the bound, then a frame with the flag clear.
C24_LiveFrames ==
    /\ lastOp.op = "animate"
    /\ ~isRotating
    /\ ~rendererDisposed
    /\ DOMAIN constellations = {"Thinking", "Systems"}
    /\ \A c \in DOMAIN constellations : rotationY[c] = MaxTicks

\* C24, a frame after dispose(): rotation is enabled and the scene has
\* groups, none of which the frame can have advanced.
C24_FrameAfterDispose ==
    /\ lastOp.op = "animate"
    /\ rendererDisposed
    /\ isRotating
    /\ DOMAIN rotationY # {}

\* C25: at most one frame callback is pending in every state, and a frame
\* that ran has requested exactly one next frame, whatever wheel, key and
\* two-pointer events and commands come between the frames.
C25_OneFramePending ==
    /\ rafPending \in {0, 1}
    /\ phase = "running" => rafPending = 1
    /\ lastOp.op = "animate" => rafPending = 1

C25_Witness ==
    /\ lastOp.op = "animate"
    /\ rafPending = 1
    /\ ~isRotating
    /\ cameraZ # DefaultCameraZ * WheelUnitsPerZ
    /\ \E c \in DOMAIN rotationY : rotationY[c] = MaxTicks

\* C26: when the construction of the scene failed, start-up is aborted: the
\* error message is shown, and there is no search manager, no global event
\* listener and no render loop.
C26_FailedStartAborts ==
    phase = "failed" =>
        /\ appPc # "initApp" => errorShown
        /\ ~searchManager
        /\ ~globalListeners
        /\ rafPending = 0

\* C26, without the listeners: after a failed construction the error message
\* is shown and there is neither a search manager nor a render loop.
C26_FailedStartShowsError ==
    phase = "failed" =>
        /\ appPc # "initApp" => errorShown
        /\ ~searchManager
        /\ rafPending = 0

\* The models of the parsed data, each with its place: entry and index.
ParsedPlaces ==
    {p \in (DOMAIN data) \X (1..MaxLines) : p[2] \in DOMAIN data[p[1]].models}

\* C27: for every markdown text the ids of the models the parser returns
\* are pairwise distinct, within and across categories.
C27_ParsedIdsDistinct ==
    lastOp.op = "parse" =>
        \A p, q \in ParsedPlaces :
            data[p[1]].models[p[2]].id = data[q[1]].models[q[2]].id => p = q

\* C27, what the parser does supply: every model's id is generateId of its
\* name, and its category is the key it is listed under.
C27_IdIsGeneratedFromName ==
    lastOp.op = "parse" =>
        \A p \in ParsedPlaces :
            /\ data[p[1]].models[p[2]].id = generateId[data[p[1]].models[p[2]].name]
            /\ data[p[1]].models[p[2]].category = data[p[1]].category

\* C28: after a click on the show-all button, in whatever state the
\* filters were, every category checkbox is checked and every constellation
\* is visible.
C28_ShowAllShowsAll ==
    lastOp.op = "showAll" =>
        /\ \A c \in DOMAIN checked : checked[c]
        /\ \A c \in DOMAIN constellations : visible[c]

\* C28, for a click while some checkbox is not checked: it checks every
\* checkbox and shows every constellation.
C28_ShowAllWhenSomeUnchecked ==
    (lastOp.op = "showAll" /\ lastOp.x = 0) =>
        /\ \A c \in DOMAIN checked : checked[c]
        /\ activeFilters = DOMAIN checked
        /\ \A c \in DOMAIN constellations : visible[c]

\* C29: a pointer move while the button is down adds the displacement since
\* the previous pointer sample, times 0.005, to the scene's rotation (y by
\* the horizontal, x by the vertical displacement) and leaves the camera
\* where it is; a move while no button is down changes neither.
C29_MoveRotatesOnlyWhileDown ==
    [][lastOp'.op = "mousemove"
       => /\ cameraZ' = cameraZ
          /\ sceneRotation' =
                IF button = "down"
                THEN [x |-> sceneRotation.x + (lastOp'.y - controls.mouseY),
                      y |-> sceneRotation.y + (lastOp'.x - controls.mouseX)]
                ELSE sceneRotation]_vars

\* C29, by the flag the handler reads: a move rotates by the displacement
\* while controls.isMouseDown is set and not at all while it is clear.
C29_MoveRotatesWhileFlagSet ==
    [][lastOp'.op = "mousemove"
       => /\ cameraZ' = cameraZ
          /\ sceneRotation' =
                IF controls.isMouseDown
                THEN [x |-> sceneRotation.x + (lastOp'.y - controls.mouseY),
                      y |-> sceneRotation.y + (lastOp'.x - controls.mouseX)]
                ELSE sceneRotation]_vars

\* C30: a click whose nearest hit is the glow of a star does what a click
\* on the star itself does: it selects that star and dispatches its model
\* when the star's group is visible, and nothing otherwise. A click whose
\* nearest hit has no ancestor that carries a model, like the star field,
\* selects nothing.
C30_GlowResolvesToItsStar ==
    (lastOp.op = "click" /\ Len(lastOp.hits) > 0) =>
        LET hit == lastOp.hits[1]
            owner == Star(hit.cat, hit.idx)
        IN IF hit.kind \in {"glow", "star"} /\ visible[hit.cat]
           THEN selectedStar = owner /\ emitted = userData[owner]
           ELSE selectedStar = lastOp.previous /\ emitted = NoModel

C30_Witness ==
    /\ lastOp.op = "click"
    /\ Len(lastOp.hits) = MaxHits
    /\ lastOp.hits[1].kind = "glow"
    /\ lastOp.hits[2].kind = "star"
    /\ lastOp.hits[2].cat # lastOp.hits[1].cat
    /\ selectedStar = Star(lastOp.hits[1].cat, lastOp.hits[1].idx)
    /\ lastOp.previous = lastOp.hits[2]
    /\ emitted = userData[selectedStar]
    /\ scale[selectedStar] = SelectedScale

\* C31: in every state at most one star has the selection scale 1.5, and a
\* star that has it is the recorded selected star, whatever clicks, focus,
\* highlight, reset and filter calls came before.
C31_AtMostOneEnlarged ==
    /\ Cardinality({s \in DOMAIN scale : scale[s] = SelectedScale}) <= 1
    /\ \A s \in DOMAIN scale : scale[s] = SelectedScale => selectedStar = s

C31_Witness ==
    /\ lastOp.op = "filter"
    /\ selectedStar # NoStar
    /\ scale[selectedStar] = SelectedScale
    /\ \E s \in DOMAIN scale : s # selectedStar /\ scale[s] = HighlightScale
    /\ Cardinality({s \in DOMAIN scale : scale[s] = SelectedScale}) = 1

\* C33: in every state in which a star is recorded as selected, that star
\* has the selection scale 1.5, whatever clicks, focus, highlight and reset
\* calls came before.
C33_SelectedIsEnlarged ==
    selectedStar # NoStar => scale[selectedStar] = SelectedScale

\* C33, right after the selecting click: the selected star has the scale
\* 1.5 until a highlight, a reset or a focus overwrites it.
C33_SelectedIsEnlargedByClick ==
    (lastOp.op = "click" /\ emitted # NoModel)
    => scale[selectedStar] = SelectedScale

\* C37: in every state the selected star, if there is one, belongs to a
\* group that is visible.
C37_SelectedIsVisible ==
    selectedStar # NoStar => visible[selectedStar.cat]

\* C37, the pick alone: a click never selects a star of a group that is
\* not visible.
C37_ClickSelectsVisible ==
    (lastOp.op = "click" /\ emitted # NoModel)
    => visible[selectedStar.cat]

\* The history without its entry of the id `id`.
WithoutId(history, id) == SelectSeq(history, LAMBDA m : m.id # id)

\* C32: addToHistory(model) for a model whose id is in the history already
\* moves it to the top and keeps the other entries in their order.
C32_ReviewMovesToTop ==
    [][(/\ lastOp'.op = "addToHistory"
        /\ \E i \in DOMAIN viewHistory : viewHistory[i].id = lastOp'.x)
       => /\ viewHistory'[1].id = lastOp'.x
          /\ Tail(viewHistory') = WithoutId(viewHistory, lastOp'.x)]_vars

\* C32, what addToHistory does: a model whose id is in the history already
\* leaves the history as it is.
C32_ReviewLeavesHistory ==
    [][(/\ lastOp'.op = "addToHistory"
        /\ \E i \in DOMAIN viewHistory : viewHistory[i].id = lastOp'.x)
       => viewHistory' = viewHistory]_vars

\* C39: the history never holds more than maxHistory entries nor two
\* entries of one id; a model viewed that is not in it is put first, before
\* the entries there were, of which the oldest is dropped when there were
\* maxHistory already; clearHistory empties it.
C39_HistoryBoundedAndDistinct ==
    [][/\ Len(viewHistory') <= maxHistory
       /\ \A i, j \in DOMAIN viewHistory' :
             viewHistory'[i].id = viewHistory'[j].id => i = j
       /\ (/\ lastOp'.op = "addToHistory"
           /\ ~\E i \in DOMAIN viewHistory : viewHistory[i].id = lastOp'.x)
          => /\ viewHistory'[1].id = lastOp'.x
             /\ Tail(viewHistory') =
                   IF Len(viewHistory) = maxHistory
                   THEN SubSeq(viewHistory, 1, maxHistory - 1)
                   ELSE viewHistory
       /\ lastOp'.op = "clearHistory" => viewHistory' = <<>>]_vars

C39_Witness ==
    /\ lastOp.op = "addToHistory"
    /\ Len(viewHistory) = maxHistory
    /\ viewHistory[1].id = 1
    /\ lastOp.x = 1
    /\ viewHistory[2].id = maxHistory + 1
    /\ ~\E i \in DOMAIN viewHistory : viewHistory[i].id = 2

\* C34: while the last toggle-rotation command was one that paused the
\* rotation, the rotation is off, whatever else has happened since, the
\* page being hidden and shown again included.
C34_UserPauseHolds == userPaused => ~isRotating

\* C34, what the code does keep: only a key press and a visibility change
\* turn a paused rotation on again, and no frame advances a constellation
\* while the rotation is off.
C34_PauseHoldsBetweenEvents ==
    [][/\ (~isRotating /\ lastOp'.op \notin {"keydown", "visibilitychange"})
          => ~isRotating'
       /\ (~isRotating /\ lastOp'.op = "animate") => rotationY' = rotationY]_vars

\* C35: a key press whose target is the search input does not toggle the
\* rotation, does not reset the camera and is not suppressed.
C35_KeysInInputAreIgnored ==
    [][(lastOp'.op = "keydown" /\ lastOp'.x = 1)
       => /\ isRotating' = isRotating
          /\ cameraZ' = cameraZ
          /\ controls' = controls
          /\ lastOp'.y = 0]_vars

\* C35, what the code does: a key press in the search input has the effect
\* of the same key pressed on the page.
C35_KeysInInputActAsOnPage ==
    [][(lastOp'.op = "keydown" /\ lastOp'.x = 1)
       => /\ isRotating' = (IF lastOp'.id = "Space" THEN ~isRotating
                                                    ELSE isRotating)
          /\ cameraZ' = (IF lastOp'.id = "KeyR" THEN resetCameraZ ELSE cameraZ)
          /\ lastOp'.y = (IF lastOp'.id = "Space" THEN 1 ELSE 0)]_vars

\* The filters agree: a category that has a constellation has it visible
\* exactly when the category is in activeFilters, and that exactly when its
\* checkbox is checked.
FiltersAgree ==
    \A c \in DOMAIN constellations :
        /\ c \in DOMAIN checked
        /\ visible[c] <=> c \in activeFilters
        /\ (c \in activeFilters) <=> checked[c]

\* C36: once the search manager exists, the filters agree after any
\* checkbox changes, show-all clicks, showAllCategories, setActiveFilters
\* and clearAll calls.
C36_FiltersConsistent == searchManager => FiltersAgree

\* C36, what holds: with the second class the filters always agree; with
\* the first they agree after every step but a checkbox change, which
\* leaves the filters as they were.
C36_ConsistentButFirstClassCheckbox ==
    /\ (searchManager /\ managerClass = 2) => FiltersAgree
    /\ (searchManager /\ managerClass = 1 /\ lastOp.op # "checkbox"
          /\ \A c \in DOMAIN checked : checked[c] <=> c \in activeFilters)
         => FiltersAgree
    /\ lastOp.op \in {"setActiveFilters", "clearAll", "showAllCategories"}
         => FiltersAgree

C36_Witness ==
    /\ lastOp.op = "setActiveFilters"
    /\ lastOp.cats = {"Systems", "Astrology"}
    /\ activeFilters = {"Systems"}
    /\ "Thinking" \in DOMAIN constellations /\ ~visible["Thinking"]
    /\ visible["Systems"] /\ checked["Systems"] /\ ~checked["Thinking"]

\* What handleSearch(query) leaves: no results and every star at its
\* baseline for a query that is empty or white space, otherwise the models
\* found as the results, highlighted, and the other stars at their baseline.
Searched(query) ==
    LET found == IF trim(query) = "" THEN {} ELSE searchModels(query) IN
    /\ currentSearchResults = found
    /\ \A id \in DOMAIN stars :
          /\ scale[stars[id]] =
                IF id \in found THEN HighlightScale ELSE BaseScale
          /\ emissiveIntensity[stars[id]] =
                IF id \in found THEN HighlightEmissive ELSE BaseEmissive

\* C38: at most one search timer is pending; while one is pending no
\* timer has run a search in this burst, and it is due 300 ms after the
\* last input event; when it fires, that is the one search of the burst, 300
\* ms after the last input event, on the value the input holds, and a value
\* that is empty or white space clears the results and the highlights.
C38_SearchIsDebounced ==
    /\ Cardinality(searchTimers) <= 1
    /\ searchTimers # {} =>
          /\ searchRuns = 0
          /\ searchTimers = {SearchDebounceMs - sinceInput}
    /\ lastOp.op = "searchTimeout" =>
          /\ searchTimers = {}
          /\ searchRuns = 1
          /\ sinceInput = SearchDebounceMs
          /\ lastOp.id = searchInput
          /\ Searched(searchInput)

C38_Witness ==
    /\ lastOp.op = "searchTimeout"
    /\ burst = MaxInputs
    /\ searchInput = " "
    /\ currentSearchResults = {}

C38_WitnessFound ==
    /\ lastOp.op = "searchTimeout"
    /\ burst >= 2
    /\ searchInput = "Trust"
    /\ currentSearchResults # {}

\* The markdown text has the header line of the category X.
HasHeader(X) == \E i \in DOMAIN markdown : markdown[i] = header(X)

\* C40: for every configured category X, a markdown text with the header
\* 'Mental models in X' is parsed into data with the key X, and the engine
\* built from it has the constellation of X.
C40_HeaderYieldsConfiguredKey ==
    \A X \in DOMAIN categoryConfigs :
        HasHeader(X) =>
            /\ phase # "fetched" => \E k \in DOMAIN data : data[k].category = X
            /\ phase = "running" => X \in DOMAIN constellations

\* The configured categories whose header extractCategoryName returns
\* as it is written in the configuration table.
KeptNames ==
    {"Thinking", "Systems", "Biological World", "Physical World",
     "Political Failure", "Rule of Law"}

\* C40, for the configured categories without ' and ' in their name: the
\* header yields the key and the constellation; for the four with ' and '
\* the parser's key is not a configured one and no constellation is made.
C40_HeaderWithoutAndYieldsKey ==
    \A X \in DOMAIN categoryConfigs :
        (HasHeader(X) /\ phase = "running") =>
            IF X \in KeptNames
            THEN /\ \E k \in DOMAIN data : data[k].category = X
                 /\ X \in DOMAIN constellations
            ELSE /\ \E k \in DOMAIN data :
                       data[k].category = extractCategoryName(header(X))
                 /\ extractCategoryName(header(X)) \notin DOMAIN categoryConfigs
                 /\ X \notin DOMAIN constellations

====
